---------------------------- MODULE Spec2Model ----------------------------
(***************************************************************************)
(* Model of the UltraSafe betting engine (scripts/moteur_paris_ultrasafe). *)
(*                                                                         *)
(* Numbers.  Every Python number (int or float) is an exact rational       *)
(* <<n, d>> with d > 0 in lowest terms; int(x) is truncation toward zero.  *)
(* Binary floating-point rounding is not modelled: arithmetic is exact.    *)
(* None is the empty tuple, an Optional[record] is a tuple of length 0 or  *)
(* 1, a dict is a function whose DOMAIN is its key set.                    *)
(*                                                                         *)
(* Flags.  The two flags the code formats with the match count,            *)
(* "echantillon_faible_A(n)" and "echantillon_faible_B(n)", are kept       *)
(* without the "(n)" suffix: the code only ever tests flags for the        *)
(* substring 'echantillon' and for equality with the unsuffixed names.     *)
(*                                                                         *)
(* Strings.  Decision labels are written without accents: "Eviter +1.5"    *)
(* and "Eviter Resultat" stand for the code's accented labels.             *)
(***************************************************************************)
EXTENDS Integers, Sequences, FiniteSets, TLC

VARIABLES
    pc,             \* position of main(): "init", "stats_chargees", "termine", "exit1";
                    \* of a direct call of a function: "decision", "chargement",
                    \* "retour"
    SEUILS,         \* MoteurUltraSafe.SEUILS
    fichier_stats,  \* stats_equipes.jsonl: [existe, lignes]
    stats_2024,     \* dict team_id -> {team_name, league_id, stats}, season 2024
    stats_2025,     \* the same, season 2025
    stats_cache,    \* dict team_id -> TeamStats
    matchs_input,   \* the match pairs of the run
    analyses,       \* the MatchAnalysis list of the run, in evaluation order
    paris_du_jour,  \* rows of paris_du_jour.csv (header excluded)
    historique,     \* historique.csv: [existe, lignes]
    appel,          \* the last direct call of a function, with its result
    runs            \* one record per finished run of main(), oldest first: its
                    \* exit status, the locals of generer_paris_du_jour and the
                    \* two output files as it left them

vars == <<pc, SEUILS, fichier_stats, stats_2024, stats_2025, stats_cache,
          matchs_input, analyses, paris_du_jour, historique, appel, runs>>

---------------------------------------------------------------------------
(* Exact rational arithmetic standing for Python's numeric operators.      *)

None == <<>>

Abs(n) == IF n < 0 THEN -n ELSE n

RECURSIVE GCD(_, _)
GCD(a, b) == IF b = 0 THEN a ELSE GCD(b, a % b)

LCM(a, b) == (a \div GCD(a, b)) * b

\* n/d in lowest terms, d > 0
Rat(n, d) ==
    LET g == GCD(Abs(n), d)
    IN  IF n = 0 THEN <<0, 1>>
        ELSE IF n > 0 THEN <<n \div g, d \div g>>
        ELSE <<-((-n) \div g), d \div g>>

Zero == <<0, 1>>
One == <<1, 1>>

RAdd(x, y) ==
    LET l == LCM(x[2], y[2])
    IN  Rat(x[1] * (l \div x[2]) + y[1] * (l \div y[2]), l)

RNeg(x) == <<-x[1], x[2]>>

RSub(x, y) == RAdd(x, RNeg(y))

RMul(x, y) == Rat(x[1] * y[1], x[2] * y[2])

\* x / y for y # 0
RDiv(x, y) ==
    IF y[1] > 0 THEN Rat(x[1] * y[2], x[2] * y[1])
    ELSE Rat(-(x[1] * y[2]), x[2] * (-y[1]))

RLt(x, y) ==
    LET l == LCM(x[2], y[2])
    IN  x[1] * (l \div x[2]) < y[1] * (l \div y[2])

RLe(x, y) == ~RLt(y, x)

RGe(x, y) == ~RLt(x, y)

RGt(x, y) == RLt(y, x)

RMax(x, y) == IF RLt(x, y) THEN y ELSE x

RMin(x, y) == IF RLt(y, x) THEN y ELSE x

RAbs(x) == <<Abs(x[1]), x[2]>>

\* int(x): truncation toward zero, as a rational
RInt(x) ==
    IF x[1] >= 0 THEN <<x[1] \div x[2], 1>> ELSE <<-((-x[1]) \div x[2]), 1>>

\* Python truthiness of an optional number: None and 0 are falsy
Truthy(v) == v # None /\ v # Zero

---------------------------------------------------------------------------
(* TeamStats and the Season Blender.                                       *)

\* The six fields merged by the blending loop, in the loop's order
CHAMPS == <<"played_total", "wins_total", "gf_avg", "ga_avg",
            "clean_sheets_total", "failed_to_score_total">>

\* played_2025 below this count selects the early-season weights
SEUIL_DEBUT_SAISON == 8

\* TeamStats(...) followed by __post_init__: the derived indicators
\* (a holds the ten constructor arguments, by keyword)
TeamStats(a) ==
    LET denom == RMax(a.played_total, One)
    IN  [ team_id |-> a.team_id,
          team_name |-> a.team_name,
          league_id |-> a.league_id,
          played_total |-> a.played_total,
          wins_total |-> a.wins_total,
          gf_avg |-> a.gf_avg,
          ga_avg |-> a.ga_avg,
          clean_sheets_total |-> a.clean_sheets_total,
          failed_to_score_total |-> a.failed_to_score_total,
          over15_rate |-> a.over15_rate,
          win_rate |-> RDiv(a.wins_total, denom),
          goal_diff_avg |-> RSub(a.gf_avg, a.ga_avg),
          attack_open |-> a.gf_avg,
          defense_leak |-> a.ga_avg,
          reliability_attack |->
              IF a.failed_to_score_total # None
              THEN RSub(One, RDiv(a.failed_to_score_total, denom))
              ELSE RMin(RDiv(a.gf_avg, <<3, 2>>), <<19, 20>>),
          reliability_defense |->
              IF a.clean_sheets_total # None
              THEN RDiv(a.clean_sheets_total, denom)
              ELSE RMax(Zero, RSub(One, RDiv(a.ga_avg, <<3, 2>>))) ]

\* stats_XXXX.get(team_id, {}).get('stats', {}): a missing entry reads as
\* a stats dict without any field
StatsVides ==
    [ played_total |-> None, wins_total |-> None, gf_avg |-> None,
      ga_avg |-> None, clean_sheets_total |-> None,
      failed_to_score_total |-> None, over15_rate |-> None ]

StatsDe(dict, team_id) ==
    IF team_id \in DOMAIN dict THEN dict[team_id].stats ELSE StatsVides

\* played_2025 = s25.get('played_total') or 0
Played2025(s25) == IF Truthy(s25.played_total) THEN s25.played_total ELSE Zero

\* the boundary count taken for an early season
Poids_borne_incluse(s25) ==
    IF RLe(Played2025(s25), <<SEUIL_DEBUT_SAISON, 1>>)
    THEN <<(<<3, 10>>), (<<7, 10>>)>>
    ELSE <<(<<7, 10>>), (<<3, 10>>)>>

\* (weight_2025, weight_2024)
Poids(s25) ==
    IF RLt(Played2025(s25), <<SEUIL_DEBUT_SAISON, 1>>)
    THEN <<(<<3, 10>>), (<<7, 10>>)>>
    ELSE <<(<<7, 10>>), (<<3, 10>>)>>

\* one iteration of the blending loop: stats_final[field]
FusionChamp(val_2025, val_2024, poids) ==
    IF val_2025 # None /\ val_2024 # None
    THEN RAdd(RMul(poids[1], val_2025), RMul(poids[2], val_2024))
    ELSE IF val_2025 # None THEN val_2025
    ELSE IF val_2024 # None THEN val_2024
    ELSE Zero

\* the dict stats_final after the loop over the six fields
StatsFinal(s24, s25) ==
    [ f \in { CHAMPS[i] : i \in 1..Len(CHAMPS) } |->
        FusionChamp(s25[f], s24[f], Poids(s25)) ]

\* the estimate left unclamped
Over15Final_sans_bornes(s24, s25) ==
    LET sf == StatsFinal(s24, s25)
        poids == Poids(s25)
    IN  IF Truthy(s25.over15_rate) /\ Truthy(s24.over15_rate)
        THEN RAdd(RMul(poids[1], s25.over15_rate), RMul(poids[2], s24.over15_rate))
        ELSE RDiv(RAdd(sf.gf_avg, sf.ga_avg), <<3, 1>>)

\* over15_final
Over15Final(s24, s25) ==
    LET sf == StatsFinal(s24, s25)
        poids == Poids(s25)
    IN  IF Truthy(s25.over15_rate) /\ Truthy(s24.over15_rate)
        THEN RAdd(RMul(poids[1], s25.over15_rate), RMul(poids[2], s24.over15_rate))
        ELSE RMax(<<3, 10>>, RMin(<<19, 20>>, RDiv(RAdd(sf.gf_avg, sf.ga_avg), <<3, 1>>)))

\* int(x) if x else None
IntOuNone(x) == IF Truthy(x) THEN RInt(x) ELSE None

\* the body of the loop of _creer_stats_ponderees for one team_id
PondererEquipe(d24, d25, team_id) ==
    LET s24 == StatsDe(d24, team_id)
        s25 == StatsDe(d25, team_id)
        meta == IF team_id \in DOMAIN d25 THEN d25[team_id] ELSE d24[team_id]
        sf == StatsFinal(s24, s25)
    IN  TeamStats([ team_id |-> team_id,
                    team_name |-> meta.team_name,
                    league_id |-> meta.league_id,
                    played_total |-> RInt(sf.played_total),
                    wins_total |-> RInt(sf.wins_total),
                    gf_avg |-> sf.gf_avg,
                    ga_avg |-> sf.ga_avg,
                    clean_sheets_total |-> IntOuNone(sf.clean_sheets_total),
                    failed_to_score_total |-> IntOuNone(sf.failed_to_score_total),
                    over15_rate |-> Over15Final(s24, s25) ])

\* _creer_stats_ponderees: the cache after the loop over the team ids (each
\* iteration writes its own key, so the set's iteration order is immaterial)
creer_stats_ponderees(cache, d24, d25) ==
    LET ids == DOMAIN d24 \cup DOMAIN d25
    IN  [ t \in DOMAIN cache \cup ids |->
            IF t \in ids THEN PondererEquipe(d24, d25, t) ELSE cache[t] ]

\* the same loop, the team ids taken in the order of the sequence ordre
\* from its element i on
RECURSIVE BouclePonderation(_, _, _, _, _)
BouclePonderation(cache, d24, d25, ordre, i) ==
    IF i > Len(ordre) THEN cache
    ELSE BouclePonderation((ordre[i] :> PondererEquipe(d24, d25, ordre[i])) @@ cache,
                           d24, d25, ordre, i + 1)

\* the parsing loop of charger_stats_equipes from line i on: blank and
\* malformed lines and records without raw_data_available are skipped, a
\* later record of the same (team, season) replaces the earlier one
RECURSIVE LireLignes(_, _, _)
LireLignes(lignes, i, acc) ==
    IF i > Len(lignes) THEN acc
    ELSE LET l == lignes[i]
             entree == [ team_name |-> l.team_name, league_id |-> l.league_id,
                         stats |-> l.stats ]
         IN  IF l.genre # "record" \/ ~l.raw_data_available
             THEN LireLignes(lignes, i + 1, acc)
             ELSE IF l.season = "2024"
             THEN LireLignes(lignes, i + 1,
                      [acc EXCEPT !.s24 = (l.team_id :> entree) @@ acc.s24])
             ELSE IF l.season = "2025"
             THEN LireLignes(lignes, i + 1,
                      [acc EXCEPT !.s25 = (l.team_id :> entree) @@ acc.s25])
             ELSE LireLignes(lignes, i + 1, acc)

DictVide == [ t \in {} |-> None ]

---------------------------------------------------------------------------
(* The Match Evaluator.                                                    *)

\* the clamped estimate of an over-1.5 rate from the goal averages
EstimationOver15(team) ==
    RMax(<<3, 10>>, RMin(<<19, 20>>, RDiv(RAdd(team.gf_avg, team.ga_avg), <<3, 1>>)))

\* the two rates multiplied instead of their complements
calculer_o15i_produit(team_a, team_b) ==
    RMul(IF Truthy(team_a.over15_rate) THEN team_a.over15_rate ELSE EstimationOver15(team_a),
         IF Truthy(team_b.over15_rate) THEN team_b.over15_rate ELSE EstimationOver15(team_b))

calculer_o15i(team_a, team_b) ==
    LET est_over15_a == IF Truthy(team_a.over15_rate) THEN team_a.over15_rate
                        ELSE EstimationOver15(team_a)
        est_over15_b == IF Truthy(team_b.over15_rate) THEN team_b.over15_rate
                        ELSE EstimationOver15(team_b)
    IN  RSub(One, RMul(RSub(One, est_over15_a), RSub(One, est_over15_b)))

\* rsi_a: the weighted sum of the six normalised deltas
SommePonderee(delta_win, delta_gdiff_norm, delta_def_norm, delta_atk_norm, delta_fail, delta_cs) ==
    RAdd(RAdd(RAdd(RAdd(RAdd(
        RMul(<<2, 5>>, delta_win),
        RMul(<<1, 4>>, delta_gdiff_norm)),
        RMul(<<3, 20>>, delta_def_norm)),
        RMul(<<1, 10>>, delta_atk_norm)),
        RMul(<<1, 20>>, delta_fail)),
        RMul(<<1, 20>>, delta_cs))

\* a slip of field in delta_fail: B's defensive reliability subtracted
calculer_rsi_champ_errone(team_a, team_b) ==
    LET rsi_a == SommePonderee(
                     RSub(team_a.win_rate, team_b.win_rate),
                     RDiv(RSub(team_a.goal_diff_avg, team_b.goal_diff_avg), <<2, 1>>),
                     RDiv(RSub(team_b.ga_avg, team_a.ga_avg), <<3, 1>>),
                     RDiv(RSub(team_a.gf_avg, team_b.gf_avg), <<3, 1>>),
                     RSub(team_a.reliability_attack, team_b.reliability_defense),
                     RSub(team_a.reliability_defense, team_b.reliability_defense))
    IN  <<rsi_a, RNeg(rsi_a)>>

\* the pair (rsi_a, rsi_b)
calculer_rsi(team_a, team_b) ==
    LET delta_win == RSub(team_a.win_rate, team_b.win_rate)
        delta_gdiff == RSub(team_a.goal_diff_avg, team_b.goal_diff_avg)
        delta_gdiff_norm == RDiv(delta_gdiff, <<2, 1>>)
        delta_atk == RSub(team_a.gf_avg, team_b.gf_avg)
        delta_atk_norm == RDiv(delta_atk, <<3, 1>>)
        delta_def == RSub(team_b.ga_avg, team_a.ga_avg)
        delta_def_norm == RDiv(delta_def, <<3, 1>>)
        delta_fail == RSub(team_a.reliability_attack, team_b.reliability_attack)
        delta_cs == RSub(team_a.reliability_defense, team_b.reliability_defense)
        rsi_a == SommePonderee(delta_win, delta_gdiff_norm, delta_def_norm,
                               delta_atk_norm, delta_fail, delta_cs)
    IN  <<rsi_a, RNeg(rsi_a)>>

\* the level gap flagged from 2.0 on
appliquer_filtres_gap_inclus(seuils, team_a, team_b) ==
    (IF RLt(team_a.played_total, seuils.played_min)
     THEN <<"echantillon_faible_A">> ELSE <<>>)
    \o (IF RLt(team_b.played_total, seuils.played_min)
        THEN <<"echantillon_faible_B">> ELSE <<>>)
    \o (IF RLt(RAdd(team_a.played_total, team_b.played_total), seuils.played_combine_min)
        THEN <<"echantillon_combine_faible">> ELSE <<>>)
    \o (IF RGe(RAbs(RSub(team_a.goal_diff_avg, team_b.goal_diff_avg)), <<2, 1>>)
        THEN <<"gap_niveau_important">> ELSE <<>>)

\* the list of flags, in the order the code appends them
appliquer_filtres(seuils, team_a, team_b) ==
    (IF RLt(team_a.played_total, seuils.played_min)
     THEN <<"echantillon_faible_A">> ELSE <<>>)
    \o (IF RLt(team_b.played_total, seuils.played_min)
        THEN <<"echantillon_faible_B">> ELSE <<>>)
    \o (IF RLt(RAdd(team_a.played_total, team_b.played_total), seuils.played_combine_min)
        THEN <<"echantillon_combine_faible">> ELSE <<>>)
    \o (IF RGt(RAbs(RSub(team_a.goal_diff_avg, team_b.goal_diff_avg)), <<2, 1>>)
        THEN <<"gap_niveau_important">> ELSE <<>>)

\* 'echantillon' in flag
ContientEchantillon(flag) ==
    flag \in {"echantillon_faible_A", "echantillon_faible_B", "echantillon_combine_faible"}

\* any('echantillon' in flag for flag in flags)
EchantillonFaible(flags) ==
    \E i \in 1..Len(flags) : ContientEchantillon(flags[i])

\* the penalty applied as soon as the match has a flag
prendre_decision_over15_tout_flag(seuils, o15i, flags) ==
    LET seuil_ultra == IF flags # <<>>
                       THEN RAdd(seuils.ultrasafe_over15, <<1, 20>>)
                       ELSE seuils.ultrasafe_over15
        seuil_safe == IF flags # <<>>
                      THEN RAdd(seuils.safe_over15, <<3, 100>>)
                      ELSE seuils.safe_over15
    IN  IF RGe(o15i, seuil_ultra) THEN <<"UltraSafe +1.5", o15i>>
        ELSE IF RGe(o15i, seuil_safe) THEN <<"Safe +1.5", o15i>>
        ELSE <<"Eviter +1.5", o15i>>

\* the labels of the two upper tiers exchanged
prendre_decision_over15_libelles_echanges(seuils, o15i, flags) ==
    LET seuil_ultra == IF EchantillonFaible(flags)
                       THEN RAdd(seuils.ultrasafe_over15, <<1, 20>>)
                       ELSE seuils.ultrasafe_over15
        seuil_safe == IF EchantillonFaible(flags)
                      THEN RAdd(seuils.safe_over15, <<3, 100>>)
                      ELSE seuils.safe_over15
    IN  IF RGe(o15i, seuil_ultra) THEN <<"Safe +1.5", o15i>>
        ELSE IF RGe(o15i, seuil_safe) THEN <<"UltraSafe +1.5", o15i>>
        ELSE <<"Eviter +1.5", o15i>>

\* the pair (decision, fiabilite)
prendre_decision_over15(seuils, o15i, flags) ==
    LET seuil_ultra == IF EchantillonFaible(flags)
                       THEN RAdd(seuils.ultrasafe_over15, <<1, 20>>)
                       ELSE seuils.ultrasafe_over15
        seuil_safe == IF EchantillonFaible(flags)
                      THEN RAdd(seuils.safe_over15, <<3, 100>>)
                      ELSE seuils.safe_over15
    IN  IF RGe(o15i, seuil_ultra) THEN <<"UltraSafe +1.5", o15i>>
        ELSE IF RGe(o15i, seuil_safe) THEN <<"Safe +1.5", o15i>>
        ELSE <<"Eviter +1.5", o15i>>

\* the safe tier refused as well when the ultra tier is excluded
prendre_decision_result_bloquant(seuils, rsi_a, rsi_b, flags) ==
    LET no_ultrasafe == \E i \in 1..Len(flags) :
                            flags[i] \in {"melange_divisions", "echantillon_combine_faible"}
        seuil_ultra == IF EchantillonFaible(flags)
                       THEN RAdd(seuils.ultrasafe_result, <<1, 20>>)
                       ELSE seuils.ultrasafe_result
        seuil_safe == IF EchantillonFaible(flags)
                      THEN RAdd(seuils.safe_result, <<3, 100>>)
                      ELSE seuils.safe_result
    IN  IF RGe(rsi_a, seuil_ultra) /\ ~no_ultrasafe THEN <<"UltraSafe A ou Nul", rsi_a>>
        ELSE IF RGe(rsi_a, seuil_safe) /\ ~no_ultrasafe THEN <<"Safe A ou Nul", rsi_a>>
        ELSE IF RGe(rsi_b, seuil_ultra) /\ ~no_ultrasafe THEN <<"UltraSafe B ou Nul", rsi_b>>
        ELSE IF RGe(rsi_b, seuil_safe) /\ ~no_ultrasafe THEN <<"Safe B ou Nul", rsi_b>>
        ELSE <<"Eviter Resultat", RMax(RAbs(rsi_a), RAbs(rsi_b))>>

\* side B examined before side A
prendre_decision_result_b_avant_a(seuils, rsi_a, rsi_b, flags) ==
    LET no_ultrasafe == \E i \in 1..Len(flags) :
                            flags[i] \in {"melange_divisions", "echantillon_combine_faible"}
        seuil_ultra == IF EchantillonFaible(flags)
                       THEN RAdd(seuils.ultrasafe_result, <<1, 20>>)
                       ELSE seuils.ultrasafe_result
        seuil_safe == IF EchantillonFaible(flags)
                      THEN RAdd(seuils.safe_result, <<3, 100>>)
                      ELSE seuils.safe_result
    IN  IF RGe(rsi_b, seuil_ultra) /\ ~no_ultrasafe THEN <<"UltraSafe B ou Nul", rsi_b>>
        ELSE IF RGe(rsi_b, seuil_safe) THEN <<"Safe B ou Nul", rsi_b>>
        ELSE IF RGe(rsi_a, seuil_ultra) /\ ~no_ultrasafe THEN <<"UltraSafe A ou Nul", rsi_a>>
        ELSE IF RGe(rsi_a, seuil_safe) THEN <<"Safe A ou Nul", rsi_a>>
        ELSE <<"Eviter Resultat", RMax(RAbs(rsi_a), RAbs(rsi_b))>>

\* the exclusion of the ultra tier left out
prendre_decision_result_sans_exclusion(seuils, rsi_a, rsi_b, flags) ==
    LET no_ultrasafe == \E i \in 1..Len(flags) :
                            flags[i] \in {"melange_divisions", "echantillon_combine_faible"}
        seuil_ultra == IF EchantillonFaible(flags)
                       THEN RAdd(seuils.ultrasafe_result, <<1, 20>>)
                       ELSE seuils.ultrasafe_result
        seuil_safe == IF EchantillonFaible(flags)
                      THEN RAdd(seuils.safe_result, <<3, 100>>)
                      ELSE seuils.safe_result
    IN  IF RGe(rsi_a, seuil_ultra) THEN <<"UltraSafe A ou Nul", rsi_a>>
        ELSE IF RGe(rsi_a, seuil_safe) THEN <<"Safe A ou Nul", rsi_a>>
        ELSE IF RGe(rsi_b, seuil_ultra) THEN <<"UltraSafe B ou Nul", rsi_b>>
        ELSE IF RGe(rsi_b, seuil_safe) THEN <<"Safe B ou Nul", rsi_b>>
        ELSE <<"Eviter Resultat", RMax(RAbs(rsi_a), RAbs(rsi_b))>>

\* the pair (decision, fiabilite)
prendre_decision_result(seuils, rsi_a, rsi_b, flags) ==
    LET no_ultrasafe == \E i \in 1..Len(flags) :
                            flags[i] \in {"melange_divisions", "echantillon_combine_faible"}
        seuil_ultra == IF EchantillonFaible(flags)
                       THEN RAdd(seuils.ultrasafe_result, <<1, 20>>)
                       ELSE seuils.ultrasafe_result
        seuil_safe == IF EchantillonFaible(flags)
                      THEN RAdd(seuils.safe_result, <<3, 100>>)
                      ELSE seuils.safe_result
    IN  IF RGe(rsi_a, seuil_ultra) /\ ~no_ultrasafe THEN <<"UltraSafe A ou Nul", rsi_a>>
        ELSE IF RGe(rsi_a, seuil_safe) THEN <<"Safe A ou Nul", rsi_a>>
        ELSE IF RGe(rsi_b, seuil_ultra) /\ ~no_ultrasafe THEN <<"UltraSafe B ou Nul", rsi_b>>
        ELSE IF RGe(rsi_b, seuil_safe) THEN <<"Safe B ou Nul", rsi_b>>
        ELSE <<"Eviter Resultat", RMax(RAbs(rsi_a), RAbs(rsi_b))>>

\* the league check left out
analyser_match_sans_ligue(cache, seuils, team_a_id, team_b_id) ==
    IF team_a_id \notin DOMAIN cache \/ team_b_id \notin DOMAIN cache THEN None
    ELSE LET team_a == cache[team_a_id]
             team_b == cache[team_b_id]
             flags == appliquer_filtres(seuils, team_a, team_b)
             o15i == calculer_o15i(team_a, team_b)
             rsi == calculer_rsi(team_a, team_b)
             d_over15 == prendre_decision_over15(seuils, o15i, flags)
             d_result == prendre_decision_result(seuils, rsi[1], rsi[2], flags)
         IN  << [ equipe_a |-> team_a.team_name,
                       equipe_b |-> team_b.team_name,
                       league_id |-> team_a.league_id,
                       o15i |-> o15i,
                       rsi_a |-> rsi[1],
                       rsi_b |-> rsi[2],
                       decision_over15 |-> d_over15[1],
                       decision_result |-> d_result[1],
                       fiabilite_over15 |-> d_over15[2],
                       fiabilite_result |-> d_result[2],
                       flags |-> flags,
                       equipe_a_id |-> team_a_id,
                       equipe_b_id |-> team_b_id ] >>

\* Optional[MatchAnalysis]: <<>> for None, <<analysis>> otherwise
analyser_match(cache, seuils, team_a_id, team_b_id) ==
    IF team_a_id \notin DOMAIN cache \/ team_b_id \notin DOMAIN cache THEN None
    ELSE LET team_a == cache[team_a_id]
             team_b == cache[team_b_id]
             flags == appliquer_filtres(seuils, team_a, team_b)
             o15i == calculer_o15i(team_a, team_b)
             rsi == calculer_rsi(team_a, team_b)
             d_over15 == prendre_decision_over15(seuils, o15i, flags)
             d_result == prendre_decision_result(seuils, rsi[1], rsi[2], flags)
         IN  IF team_a.league_id # team_b.league_id THEN None
             ELSE << [ equipe_a |-> team_a.team_name,
                       equipe_b |-> team_b.team_name,
                       league_id |-> team_a.league_id,
                       o15i |-> o15i,
                       rsi_a |-> rsi[1],
                       rsi_b |-> rsi[2],
                       decision_over15 |-> d_over15[1],
                       decision_result |-> d_result[1],
                       fiabilite_over15 |-> d_over15[2],
                       fiabilite_result |-> d_result[2],
                       flags |-> flags,
                       equipe_a_id |-> team_a_id,
                       equipe_b_id |-> team_b_id ] >>

\* self.SEUILS after the decisions of a list of analyses, had the penalties
\* been added to the entries of the dict
seuils_apres_decisions_en_place(seuils, liste) ==
    IF \E i \in 1..Len(liste) : EchantillonFaible(liste[i].flags)
    THEN [seuils EXCEPT !.ultrasafe_over15 = RAdd(@, <<1, 20>>),
                        !.safe_over15 = RAdd(@, <<3, 100>>),
                        !.ultrasafe_result = RAdd(@, <<1, 20>>),
                        !.safe_result = RAdd(@, <<3, 100>>)]
    ELSE seuils

\* self.SEUILS after the decisions of a list of analyses: seuil_ultra and
\* seuil_safe are locals bound to the values read from the dict, and
\* `seuil_ultra += 0.05` rebinds the local
seuils_apres_decisions(seuils, liste) == seuils

---------------------------------------------------------------------------
(* The Recommendation Ranker & Emitter.                                    *)

\* decision.startswith("UltraSafe")
EstUltraSafe(decision) ==
    decision \in {"UltraSafe +1.5", "UltraSafe A ou Nul", "UltraSafe B ou Nul"}

\* x put before the elements whose key equals its own
RECURSIVE Inserer_avant_egaux(_, _, _)
Inserer_avant_egaux(triee, x, champ) ==
    IF triee = <<>> THEN <<x>>
    ELSE IF RGt(Head(triee)[champ], x[champ])
         THEN <<Head(triee)>> \o Inserer_avant_egaux(Tail(triee), x, champ)
         ELSE <<x>> \o triee

\* list.sort(key=cle, reverse=True): stable, descending.  Inserer puts x
\* after every element whose key is greater than or equal to its own.
RECURSIVE Inserer(_, _, _)
Inserer(triee, x, champ) ==
    IF triee = <<>> THEN <<x>>
    ELSE IF RGe(Head(triee)[champ], x[champ])
         THEN <<Head(triee)>> \o Inserer(Tail(triee), x, champ)
         ELSE <<x>> \o triee

RECURSIVE TrierDecroissant(_, _)
TrierDecroissant(liste, champ) ==
    IF liste = <<>> THEN <<>>
    ELSE Inserer(TrierDecroissant(SubSeq(liste, 1, Len(liste) - 1), champ),
                 liste[Len(liste)], champ)

\* the number of rows written per bet family: the slice [:3]
TOP_N == 3

\* liste[:n]
Tranche(liste, n) == SubSeq(liste, 1, IF Len(liste) < n THEN Len(liste) ELSE n)

\* f"{a} vs {b}", kept as its three parts
LibelleMatch(a) == <<a.equipe_a, "vs", a.equipe_b>>

LigneOver15(a) ==
    [ Type |-> "UltraSafe_Over15",
      Match |-> LibelleMatch(a),
      League_ID |-> a.league_id,
      Pari |-> <<"+1.5 Buts">>,
      Fiabilite |-> a.fiabilite_over15,
      Equipe_A |-> a.equipe_a,
      Equipe_B |-> a.equipe_b,
      O15I |-> a.o15i,
      RSI_A |-> a.rsi_a,
      RSI_B |-> a.rsi_b,
      Flags |-> a.flags ]

LigneResult(a) ==
    [ Type |-> "UltraSafe_Result",
      Match |-> LibelleMatch(a),
      League_ID |-> a.league_id,
      Pari |-> IF RGt(a.rsi_a, a.rsi_b) THEN <<a.equipe_a, "ou Nul", "1X">>
               ELSE <<a.equipe_b, "ou Nul", "X2">>,
      Fiabilite |-> a.fiabilite_result,
      Equipe_A |-> a.equipe_a,
      Equipe_B |-> a.equipe_b,
      O15I |-> a.o15i,
      RSI_A |-> a.rsi_a,
      RSI_B |-> a.rsi_b,
      Flags |-> a.flags ]

\* _ecrire_paris_du_jour: the file is opened in mode 'w', so its former
\* content is lost; the header row is not kept in lignes
ecrire_paris_du_jour(ultrasafe_over15, ultrasafe_result) ==
    [ existe |-> TRUE,
      lignes |->
          LET over15 == Tranche(ultrasafe_over15, TOP_N)
              result == Tranche(ultrasafe_result, TOP_N)
          IN  [ i \in 1..Len(over15) |-> LigneOver15(over15[i]) ]
              \o [ i \in 1..Len(result) |-> LigneResult(result[i]) ] ]

ENTETE_HISTORIQUE == [ genre |-> "entete" ]

LigneHistorique(date_today, a) ==
    [ genre |-> "ligne",
      Date |-> date_today,
      Match |-> LibelleMatch(a),
      League_ID |-> a.league_id,
      Decision_Over15 |-> a.decision_over15,
      Decision_Result |-> a.decision_result,
      O15I |-> a.o15i,
      RSI_A |-> a.rsi_a,
      RSI_B |-> a.rsi_b,
      Fiabilite_Over15 |-> a.fiabilite_over15,
      Fiabilite_Result |-> a.fiabilite_result,
      Equipe_A_ID |-> a.equipe_a_id,
      Equipe_B_ID |-> a.equipe_b_id,
      Flags |-> a.flags ]

\* the analyses logged only by the run that creates the file
ajouter_historique_fichier_neuf(fichier, liste, date_today) ==
    [ existe |-> TRUE,
      lignes |-> IF fichier.existe THEN fichier.lignes
                 ELSE <<ENTETE_HISTORIQUE>>
                      \o [ i \in 1..Len(liste) |-> LigneHistorique(date_today, liste[i]) ] ]

\* the header written by every run
ajouter_historique_entete_toujours(fichier, liste, date_today) ==
    [ existe |-> TRUE,
      lignes |-> fichier.lignes
                 \o <<ENTETE_HISTORIQUE>>
                 \o [ i \in 1..Len(liste) |-> LigneHistorique(date_today, liste[i]) ] ]

\* only the analyses with an ultra decision logged
ajouter_historique_ultrasafe_seuls(fichier, liste, date_today) ==
    LET actionnables == SelectSeq(liste, LAMBDA a : EstUltraSafe(a.decision_over15)
                                                    \/ EstUltraSafe(a.decision_result))
    IN  [ existe |-> TRUE,
          lignes |-> fichier.lignes
                     \o (IF fichier.existe THEN <<>> ELSE <<ENTETE_HISTORIQUE>>)
                     \o [ i \in 1..Len(actionnables) |->
                            LigneHistorique(date_today, actionnables[i]) ] ]

\* _ajouter_historique: mode 'a'; the header only when the file is new
ajouter_historique(fichier, liste, date_today) ==
    [ existe |-> TRUE,
      lignes |-> fichier.lignes
                 \o (IF fichier.existe THEN <<>> ELSE <<ENTETE_HISTORIQUE>>)
                 \o [ i \in 1..Len(liste) |-> LigneHistorique(date_today, liste[i]) ] ]

\* the evaluation loop of generer_paris_du_jour from pair i on: the list
\* analyses
RECURSIVE AnalyserTous(_, _, _, _)
AnalyserTous(cache, seuils, matchs, i) ==
    IF i > Len(matchs) THEN <<>>
    ELSE analyser_match(cache, seuils, matchs[i][1], matchs[i][2])
         \o AnalyserTous(cache, seuils, matchs, i + 1)

FiltrerOver15(a) == EstUltraSafe(a.decision_over15)

FiltrerResult(a) == EstUltraSafe(a.decision_result)

---------------------------------------------------------------------------
(* The match-pair loader.  A match file is [existe, format, entrees]; an   *)
(* entry is [genre, team_a_id, team_b_id], of genre "objet" for a JSON     *)
(* object or a full CSV row and "autre" otherwise (a JSON value that is    *)
(* not an object, a CSV row cut short).  An id is <<n>>, or None when the  *)
(* key is missing from the JSON object or the CSV cell is not a number.    *)

\* team_a and team_b: both ids present and non-zero
IdsPresents(team_a, team_b) ==
    /\ team_a # None /\ team_a[1] # 0
    /\ team_b # None /\ team_b[1] # 0

\* the JSON loop from entry i on; match.get raises on an entry that is not
\* an object and the handler of the function returns []
RECURSIVE LireMatchsJson(_, _, _)
LireMatchsJson(entrees, i, matchs) ==
    IF i > Len(entrees) THEN matchs
    ELSE IF entrees[i].genre # "objet" THEN <<>>
    ELSE LET team_a == entrees[i].team_a_id
             team_b == entrees[i].team_b_id
         IN  IF IdsPresents(team_a, team_b)
             THEN LireMatchsJson(entrees, i + 1, Append(matchs, <<team_a[1], team_b[1]>>))
             ELSE LireMatchsJson(entrees, i + 1, matchs)

\* the CSV loop from row i on; int(row[...]) raises on a cell that is not a
\* number and the handler of the function returns []
RECURSIVE LireMatchsCsv(_, _, _)
LireMatchsCsv(entrees, i, matchs) ==
    IF i > Len(entrees) THEN matchs
    ELSE IF entrees[i].genre # "objet" THEN <<>>
    ELSE LET team_a == entrees[i].team_a_id
             team_b == entrees[i].team_b_id
         IN  IF team_a = None \/ team_b = None THEN <<>>
             ELSE LireMatchsCsv(entrees, i + 1, Append(matchs, <<team_a[1], team_b[1]>>))

charger_matchs_du_jour(fichier_matchs) ==
    IF ~fichier_matchs.existe THEN <<>>
    ELSE IF fichier_matchs.format = "json" THEN LireMatchsJson(fichier_matchs.entrees, 1, <<>>)
    ELSE IF fichier_matchs.format = "csv" THEN LireMatchsCsv(fichier_matchs.entrees, 1, <<>>)
    ELSE <<>>

---------------------------------------------------------------------------
(* Inputs of the model.                                                    *)

\* the longest list of match pairs of a run
MaxMatchs == 2

SeuilsDefaut ==
    [ ultrasafe_over15 |-> <<39, 50>>,
      safe_over15 |-> <<17, 25>>,
      ultrasafe_result |-> <<3, 5>>,
      safe_result |-> <<9, 20>>,
      played_min |-> <<6, 1>>,
      played_combine_min |-> <<10, 1>> ]

\* season records of the statistics file
Fort ==
    [ played_total |-> <<20, 1>>, wins_total |-> <<16, 1>>, gf_avg |-> <<5, 2>>,
      ga_avg |-> <<1, 2>>, clean_sheets_total |-> <<10, 1>>,
      failed_to_score_total |-> <<1, 1>>, over15_rate |-> <<4, 5>> ]

Faible ==
    [ played_total |-> <<20, 1>>, wins_total |-> <<2, 1>>, gf_avg |-> <<1, 2>>,
      ga_avg |-> <<2, 1>>, clean_sheets_total |-> None,
      failed_to_score_total |-> None, over15_rate |-> <<1, 2>> ]

DebutFort ==
    [ played_total |-> <<4, 1>>, wins_total |-> <<4, 1>>, gf_avg |-> <<3, 1>>,
      ga_avg |-> <<1, 2>>, clean_sheets_total |-> <<0, 1>>,
      failed_to_score_total |-> None, over15_rate |-> <<9, 10>> ]

DebutFaible ==
    [ played_total |-> <<3, 1>>, wins_total |-> <<0, 1>>, gf_avg |-> <<1, 2>>,
      ga_avg |-> <<1, 1>>, clean_sheets_total |-> None,
      failed_to_score_total |-> None, over15_rate |-> None ]

\* two teams without clean-sheet, failed-to-score and over-rate data
ExempleA ==
    [ played_total |-> <<20, 1>>, wins_total |-> <<12, 1>>, gf_avg |-> <<2, 1>>,
      ga_avg |-> <<4, 5>>, clean_sheets_total |-> None,
      failed_to_score_total |-> None, over15_rate |-> None ]

ExempleB ==
    [ played_total |-> <<20, 1>>, wins_total |-> <<6, 1>>, gf_avg |-> <<1, 1>>,
      ga_avg |-> <<3, 2>>, clean_sheets_total |-> None,
      failed_to_score_total |-> None, over15_rate |-> None ]

Ligne(team_id, league_id, season, disponible, stats) ==
    [ genre |-> "record", raw_data_available |-> disponible, team_id |-> team_id,
      team_name |-> <<"Equipe", team_id>>, league_id |-> league_id,
      season |-> season, stats |-> stats ]

LigneIllisible == [ genre |-> "illisible" ]

\* the statistics files of Spec: at most one line per (team, season), teams
\* 1 and 2, team 2 in the league of team 1 or in another one
FichiersStats ==
    { l1 \o l2 \o l3 \o l4 :
        l1 \in {<<>>} \cup { <<Ligne(1, 39, "2024", TRUE, st)>> : st \in {Fort, StatsVides} }
                      \cup { <<Ligne(1, 39, "2024", FALSE, Fort)>> },
        l2 \in {<<>>} \cup { <<Ligne(1, 39, "2025", TRUE, st)>> : st \in {DebutFort, Fort} },
        l3 \in {<<>>, <<LigneIllisible>>}
                      \cup { <<Ligne(2, 39, "2024", TRUE, st)>> : st \in {Faible, StatsVides} }
                      \cup { <<Ligne(2, 61, "2024", TRUE, Faible)>> },
        l4 \in {<<>>} \cup { <<Ligne(2, 39, "2025", TRUE, st)>> : st \in {DebutFaible, Faible} } }

\* the team ids a match pair may name: 3 is in no statistics file
IdsMatchs == {1, 2, 3}

RECURSIVE ListesJusqua(_, _)
ListesJusqua(S, n) ==
    IF n = 0 THEN {<<>>}
    ELSE LET plus_courtes == ListesJusqua(S, n - 1)
         IN  plus_courtes \cup
             { Append(l, x) : l \in { m \in plus_courtes : Len(m) = n - 1 }, x \in S }

\* the pairs a match file may hold: both orders, a team against itself, and
\* pairs naming the unknown team on either side
PairesMatchs == { p \in IdsMatchs \X IdsMatchs : p[1] # 3 \/ p[2] = 2 } \ {<<2, 3>>}

ListesMatchs == ListesJusqua(PairesMatchs, MaxMatchs) \ {<<>>}

FichierAbsent == [ existe |-> FALSE, lignes |-> <<>> ]

Entree(team_a, team_b) == [ genre |-> "objet", team_a_id |-> team_a, team_b_id |-> team_b ]

FichierMatchs(format, entrees) == [ existe |-> TRUE, format |-> format, entrees |-> entrees ]

FichierMatchsAbsent == [ existe |-> FALSE, format |-> "json", entrees |-> <<>> ]

\* the JSON file holding the pairs of liste
FichierJson(liste) ==
    FichierMatchs("json", [ i \in 1..Len(liste) |-> Entree(<<liste[i][1]>>, <<liste[i][2]>>) ])

\* the match files of Spec: one JSON file per list of pairs, and four files
\* without any pair: the missing file, the empty list, an entry without its
\* second id, a CSV file with a cell that is not a number
FichiersMatchsDuJour ==
    { FichierJson(l) : l \in ListesMatchs }
        \cup { FichierMatchsAbsent,
               FichierMatchs("json", <<>>),
               FichierMatchs("json", <<Entree(<<1>>, None)>>),
               FichierMatchs("csv", <<Entree(<<1>>, <<2>>), Entree(None, <<2>>)>>) }

---------------------------------------------------------------------------
(* The engine run: main().                                                 *)

Init ==
    /\ pc = "init"
    /\ SEUILS = SeuilsDefaut
    /\ fichier_stats \in { [existe |-> TRUE, lignes |-> l] : l \in FichiersStats }
                         \cup {FichierAbsent}
    /\ stats_2024 = DictVide
    /\ stats_2025 = DictVide
    /\ stats_cache = DictVide
    /\ matchs_input = <<>>
    /\ analyses = <<>>
    /\ paris_du_jour = FichierAbsent
    /\ historique = FichierAbsent
    /\ appel = None
    /\ runs = <<>>

\* date_today: the clock advances by one day from a run to the next
DateDuJour == Len(runs) + 1

\* the record of a run that ended with sys.exit(1) before writing any file
RunEchoue(etape) ==
    [ code |-> 1,
      etape |-> etape,
      matchs_input |-> <<>>,
      analyses |-> <<>>,
      ultrasafe_over15 |-> <<>>,
      ultrasafe_result |-> <<>>,
      paris_du_jour |-> paris_du_jour,
      historique_avant |-> historique,
      historique_apres |-> historique ]

\* main(): open(fichier_stats) raises, the handler of main calls sys.exit(1)
erreur_chargement_stats ==
    /\ pc = "init"
    /\ ~fichier_stats.existe
    /\ pc' = "exit1"
    /\ runs' = Append(runs, RunEchoue("stats"))
    /\ UNCHANGED <<SEUILS, fichier_stats, stats_2024, stats_2025, stats_cache,
                   matchs_input, analyses, paris_du_jour, historique, appel>>

\* moteur.charger_stats_equipes(args.stats_file)
charger_stats_equipes ==
    /\ pc = "init"
    /\ fichier_stats.existe
    /\ LET lus == LireLignes(fichier_stats.lignes, 1, [s24 |-> DictVide, s25 |-> DictVide])
       IN  /\ stats_2024' = lus.s24
           /\ stats_2025' = lus.s25
           /\ stats_cache' = creer_stats_ponderees(stats_cache, lus.s24, lus.s25)
    /\ pc' = "stats_chargees"
    /\ UNCHANGED <<SEUILS, fichier_stats, matchs_input, analyses, paris_du_jour,
                   historique, appel, runs>>

\* main(): charger_matchs_du_jour returned no pair, sys.exit(1)
main_aucun_match_parmi(fichiers) ==
    /\ pc = "stats_chargees"
    /\ \E fichier_matchs \in fichiers : charger_matchs_du_jour(fichier_matchs) = <<>>
    /\ matchs_input' = <<>>
    /\ pc' = "exit1"
    /\ runs' = Append(runs, RunEchoue("matchs"))
    /\ UNCHANGED <<SEUILS, fichier_stats, stats_2024, stats_2025, stats_cache,
                   analyses, paris_du_jour, historique, appel>>

\* the state of the files and of the run after generer_paris_du_jour(matchs)
generer_paris_du_jour(matchs) ==
    LET liste == AnalyserTous(stats_cache, SEUILS, matchs, 1)
        ultrasafe_over15 == TrierDecroissant(SelectSeq(liste, FiltrerOver15),
                                             "fiabilite_over15")
        ultrasafe_result == TrierDecroissant(SelectSeq(liste, FiltrerResult),
                                             "fiabilite_result")
        sortie == ecrire_paris_du_jour(ultrasafe_over15, ultrasafe_result)
        journal == ajouter_historique(historique, liste, DateDuJour)
    IN  /\ analyses' = liste
        /\ SEUILS' = seuils_apres_decisions(SEUILS, liste)
        /\ paris_du_jour' = sortie
        /\ historique' = journal
        /\ runs' = Append(runs, [ code |-> 0,
                                  etape |-> "paris",
                                  matchs_input |-> matchs,
                                  analyses |-> liste,
                                  ultrasafe_over15 |-> ultrasafe_over15,
                                  ultrasafe_result |-> ultrasafe_result,
                                  paris_du_jour |-> sortie,
                                  historique_avant |-> historique,
                                  historique_apres |-> journal ])

\* main(): the pairs are loaded and generer_paris_du_jour runs to its end
main_generer_parmi(fichiers) ==
    /\ pc = "stats_chargees"
    /\ \E fichier_matchs \in fichiers :
          LET matchs == charger_matchs_du_jour(fichier_matchs)
          IN  /\ matchs # <<>>
              /\ matchs_input' = matchs
              /\ generer_paris_du_jour(matchs)
    /\ pc' = "termine"
    /\ UNCHANGED <<fichier_stats, stats_2024, stats_2025, stats_cache, appel>>

main_aucun_match == main_aucun_match_parmi(FichiersMatchsDuJour)

main_generer == main_generer_parmi(FichiersMatchsDuJour)

Next ==
    \/ erreur_chargement_stats
    \/ charger_stats_equipes
    \/ main_aucun_match
    \/ main_generer

Spec == Init /\ [][Next]_vars

---------------------------------------------------------------------------
(* Successive runs of the engine on the same files: each run is a new      *)
(* process, so nothing but the files outlives it.                          *)

\* the most runs of a behaviour
MaxRuns == 2

FichiersStatsRelance ==
    { FichierAbsent,
      [ existe |-> TRUE,
        lignes |-> <<Ligne(1, 39, "2024", TRUE, Fort), Ligne(2, 39, "2024", TRUE, Faible)>> ],
      [ existe |-> TRUE,
        lignes |-> <<Ligne(2, 61, "2024", TRUE, Faible), Ligne(1, 39, "2024", TRUE, Fort)>> ],
      [ existe |-> TRUE,
        lignes |-> <<Ligne(1, 39, "2025", TRUE, DebutFort),
                     Ligne(2, 39, "2025", TRUE, DebutFaible)>> ],
      [ existe |-> TRUE,
        lignes |-> <<Ligne(1, 39, "2024", TRUE, ExempleA),
                     Ligne(2, 39, "2024", TRUE, ExempleB)>> ] }

\* the match files of the successive runs: none, a pair listed twice, a
\* pair in both orders, four pairs, a pair with an unknown team, a team
\* against itself
FichiersMatchsRelance ==
    { FichierMatchsAbsent,
      FichierJson(<< <<2, 2>>, <<2, 2>> >>),
      FichierJson(<< <<2, 1>>, <<1, 2>> >>),
      FichierJson(<< <<1, 2>>, <<2, 1>>, <<1, 1>>, <<1, 2>> >>),
      FichierJson(<< <<1, 3>> >>),
      FichierJson(<< <<1, 1>> >>) }

InitRelance ==
    /\ pc = "init"
    /\ SEUILS = SeuilsDefaut
    /\ fichier_stats \in FichiersStatsRelance
    /\ stats_2024 = DictVide
    /\ stats_2025 = DictVide
    /\ stats_cache = DictVide
    /\ matchs_input = <<>>
    /\ analyses = <<>>
    /\ paris_du_jour = FichierAbsent
    /\ historique = FichierAbsent
    /\ appel = None
    /\ runs = <<>>

\* the process ended; main() is started again: MoteurUltraSafe() builds an
\* empty cache, the files are as the former run left them
relancer ==
    /\ pc \in {"termine", "exit1"}
    /\ Len(runs) < MaxRuns
    /\ pc' = "init"
    /\ stats_2024' = DictVide
    /\ stats_2025' = DictVide
    /\ stats_cache' = DictVide
    /\ matchs_input' = <<>>
    /\ analyses' = <<>>
    /\ UNCHANGED <<SEUILS, fichier_stats, paris_du_jour, historique, appel, runs>>

relance_aucun_match == main_aucun_match_parmi(FichiersMatchsRelance)

relance_generer == main_generer_parmi(FichiersMatchsRelance)

NextRelance ==
    \/ erreur_chargement_stats
    \/ charger_stats_equipes
    \/ relance_aucun_match
    \/ relance_generer
    \/ relancer

SpecRelance == InitRelance /\ [][NextRelance]_vars

---------------------------------------------------------------------------
(* The Season Blender on one team, over the combinations of present and    *)
(* absent fields of its two season records.                                *)

\* a season record as a data provider can emit it: counts within the
\* number of matches played
Coherent(st) ==
    \A f \in {"wins_total", "clean_sheets_total", "failed_to_score_total"} :
        (st[f] # None /\ st.played_total # None) => RLe(st[f], st.played_total)

Stats2025Ponderation ==
    { st \in [ played_total : {None, <<0, 1>>, <<4, 1>>, <<8, 1>>},
               wins_total : {None, <<3, 1>>},
               gf_avg : {None, <<2, 1>>},
               ga_avg : {<<1, 1>>},
               clean_sheets_total : {None, <<0, 1>>, <<2, 1>>},
               failed_to_score_total : {None},
               over15_rate : {None, <<9, 10>>} ] : Coherent(st) }

Stats2024Ponderation ==
    { st \in [ played_total : {None, <<10, 1>>, <<20, 1>>},
               wins_total : {None, <<16, 1>>},
               gf_avg : {None, <<1, 2>>},
               ga_avg : {None, <<3, 2>>},
               clean_sheets_total : {None, <<8, 1>>},
               failed_to_score_total : {None, <<0, 1>>, <<5, 1>>},
               over15_rate : {None, <<3, 5>>} ] : Coherent(st) }

FichiersPonderation ==
    { l1 \o l2 :
        l1 \in {<<>>} \cup { <<Ligne(1, 39, "2024", TRUE, st)>> : st \in Stats2024Ponderation },
        l2 \in {<<>>} \cup { <<Ligne(1, 39, "2025", TRUE, st)>> : st \in Stats2025Ponderation } }

InitPonderation ==
    /\ pc = "init"
    /\ SEUILS = SeuilsDefaut
    /\ fichier_stats \in { [existe |-> TRUE, lignes |-> l] : l \in FichiersPonderation }
    /\ stats_2024 = DictVide
    /\ stats_2025 = DictVide
    /\ stats_cache = DictVide
    /\ matchs_input = <<>>
    /\ analyses = <<>>
    /\ paris_du_jour = FichierAbsent
    /\ historique = FichierAbsent
    /\ appel = None
    /\ runs = <<>>

SpecPonderation == InitPonderation /\ [][charger_stats_equipes]_vars

---------------------------------------------------------------------------
(* The two decision functions called directly, on a grid of indices and    *)
(* on every list of flags appliquer_filtres can build.                     *)

Centiemes(K) == { Rat(k, 100) : k \in K }

ValeursO15I == Centiemes({50, 67, 68, 70, 71, 75, 77, 78, 80, 82, 83, 90})

ValeursRSI ==
    Centiemes({-70, -65, -64, -60, -48, -45, -30, 0, 30, 44, 45, 47, 48, 59, 60, 64, 65, 70})

ListesFlags ==
    { a \o b \o c \o d :
        a \in {<<>>, <<"echantillon_faible_A">>},
        b \in {<<>>, <<"echantillon_faible_B">>},
        c \in {<<>>, <<"echantillon_combine_faible">>},
        d \in {<<>>, <<"gap_niveau_important">>} }

InitDecision ==
    /\ pc = "decision"
    /\ SEUILS = SeuilsDefaut
    /\ fichier_stats = FichierAbsent
    /\ stats_2024 = DictVide
    /\ stats_2025 = DictVide
    /\ stats_cache = DictVide
    /\ matchs_input = <<>>
    /\ analyses = <<>>
    /\ paris_du_jour = FichierAbsent
    /\ historique = FichierAbsent
    /\ appel = None
    /\ runs = <<>>

\* moteur.prendre_decision_over15(o15i, flags)
appel_decision_over15 ==
    /\ pc = "decision"
    /\ \E o15i \in ValeursO15I, flags \in ListesFlags :
          appel' = << [ fonction |-> "prendre_decision_over15",
                        o15i |-> o15i,
                        flags |-> flags,
                        retour |-> prendre_decision_over15(SEUILS, o15i, flags) ] >>
    /\ pc' = "retour"
    /\ UNCHANGED <<SEUILS, fichier_stats, stats_2024, stats_2025, stats_cache,
                   matchs_input, analyses, paris_du_jour, historique, runs>>

\* moteur.prendre_decision_result(rsi_a, rsi_b, flags)
appel_decision_result ==
    /\ pc = "decision"
    /\ \E rsi_a \in ValeursRSI, rsi_b \in ValeursRSI, flags \in ListesFlags :
          appel' = << [ fonction |-> "prendre_decision_result",
                        rsi_a |-> rsi_a,
                        rsi_b |-> rsi_b,
                        flags |-> flags,
                        retour |-> prendre_decision_result(SEUILS, rsi_a, rsi_b, flags) ] >>
    /\ pc' = "retour"
    /\ UNCHANGED <<SEUILS, fichier_stats, stats_2024, stats_2025, stats_cache,
                   matchs_input, analyses, paris_du_jour, historique, runs>>

NextDecision == appel_decision_over15 \/ appel_decision_result

SpecDecision == InitDecision /\ [][NextDecision]_vars

---------------------------------------------------------------------------
(* The match-pair loader called directly, on JSON and CSV files whose      *)
(* entries are complete, lack an id, or are malformed.                     *)

\* the most entries of a match file
MaxEntrees == 3

EntreeAutre == [ genre |-> "autre", team_a_id |-> None, team_b_id |-> None ]

EntreesPossibles ==
    { Entree(<<1>>, <<2>>), Entree(<<2>>, <<1>>), Entree(None, <<2>>), Entree(<<1>>, None),
      EntreeAutre }

FichiersMatchsChargement ==
    { FichierMatchsAbsent }
        \cup { FichierMatchs(format, entrees) :
                   format \in {"json", "csv"},
                   entrees \in ListesJusqua(EntreesPossibles, MaxEntrees) }

InitChargement ==
    /\ pc = "chargement"
    /\ SEUILS = SeuilsDefaut
    /\ fichier_stats = FichierAbsent
    /\ stats_2024 = DictVide
    /\ stats_2025 = DictVide
    /\ stats_cache = DictVide
    /\ matchs_input = <<>>
    /\ analyses = <<>>
    /\ paris_du_jour = FichierAbsent
    /\ historique = FichierAbsent
    /\ appel = None
    /\ runs = <<>>

\* charger_matchs_du_jour(fichier_matchs)
appel_charger_matchs ==
    /\ pc = "chargement"
    /\ \E fichier_matchs \in FichiersMatchsChargement :
          appel' = << [ fonction |-> "charger_matchs_du_jour",
                        fichier_matchs |-> fichier_matchs,
                        retour |-> charger_matchs_du_jour(fichier_matchs) ] >>
    /\ pc' = "retour"
    /\ UNCHANGED <<SEUILS, fichier_stats, stats_2024, stats_2025, stats_cache,
                   matchs_input, analyses, paris_du_jour, historique, runs>>

SpecChargement == InitChargement /\ [][appel_charger_matchs]_vars

---------------------------------------------------------------------------
(* The start of main() with the option --seuils.  An override file is      *)
(* [existe, genre, contenu]: of genre "objet" for a JSON object (contenu a *)
(* function from keys to numbers), "liste" for a JSON array (contenu a    *)
(* sequence of elements, [key, value] arrays or other values), "scalaire"  *)
(* for a JSON number or null, "invalide" for a text json.load rejects.     *)

Paire(cle, valeur) == [ genre |-> "paire", cle |-> cle, valeur |-> valeur ]

ElementAutre == [ genre |-> "autre" ]

\* dict.update over a list: the elements are taken in order, each [key,
\* value] is stored at once, the first element that is no pair raises
RECURSIVE update_liste(_, _, _)
update_liste(seuils, elements, i) ==
    IF i > Len(elements) THEN [ seuils |-> seuils, erreur |-> FALSE ]
    ELSE IF elements[i].genre # "paire" THEN [ seuils |-> seuils, erreur |-> TRUE ]
    ELSE update_liste((elements[i].cle :> elements[i].valeur) @@ seuils, elements, i + 1)

\* the try block of main(): open, json.load, moteur.SEUILS.update; erreur
\* tells whether the except branch printed its warning
charger_seuils_custom(seuils, fichier) ==
    IF ~fichier.existe \/ fichier.genre \in {"invalide", "scalaire"}
    THEN [ seuils |-> seuils, erreur |-> TRUE ]
    ELSE IF fichier.genre = "objet"
    THEN [ seuils |-> fichier.contenu @@ seuils, erreur |-> FALSE ]
    ELSE update_liste(seuils, fichier.contenu, 1)

\* the keys an override gives and the value it gives to each
ValeursCustom ==
    [ played_min |-> <<3, 1>>, safe_result |-> <<2, 5>>, ultrasafe_over15 |-> <<7, 10>>,
      inconnu |-> <<1, 1>> ]

FichierSeuils(genre, contenu) == [ existe |-> TRUE, genre |-> genre, contenu |-> contenu ]

FichierSeuilsAbsent == [ existe |-> FALSE, genre |-> "objet", contenu |-> <<>> ]

ElementsSeuils ==
    { Paire("played_min", <<3, 1>>), Paire("safe_result", <<2, 5>>),
      Paire("played_min", <<8, 1>>), ElementAutre }

\* the most elements of a JSON array of thresholds
MaxElements == 2

FichiersSeuils ==
    { FichierSeuilsAbsent, FichierSeuils("invalide", <<>>), FichierSeuils("scalaire", <<>>) }
        \cup { FichierSeuils("objet", [k \in K |-> ValeursCustom[k]]) :
                   K \in SUBSET DOMAIN ValeursCustom }
        \cup { FichierSeuils("liste", l) : l \in ListesJusqua(ElementsSeuils, MaxElements) }

InitSeuils ==
    /\ pc = "demarrage"
    /\ SEUILS = SeuilsDefaut
    /\ fichier_stats \in FichiersStatsRelance
    /\ stats_2024 = DictVide
    /\ stats_2025 = DictVide
    /\ stats_cache = DictVide
    /\ matchs_input = <<>>
    /\ analyses = <<>>
    /\ paris_du_jour = FichierAbsent
    /\ historique = FichierAbsent
    /\ appel = None
    /\ runs = <<>>

\* main(): args.seuils is not given, the defaults stay
sans_seuils_custom ==
    /\ pc = "demarrage"
    /\ appel' = << [ fonction |-> "main", seuils |-> None, avertissement |-> FALSE ] >>
    /\ pc' = "init"
    /\ UNCHANGED <<SEUILS, fichier_stats, stats_2024, stats_2025, stats_cache,
                   matchs_input, analyses, paris_du_jour, historique, runs>>

\* main(): args.seuils names a file; whatever the try block raises is
\* caught and the run goes on to the loading of the statistics
charger_seuils ==
    /\ pc = "demarrage"
    /\ \E fichier \in FichiersSeuils :
          LET r == charger_seuils_custom(SEUILS, fichier)
          IN  /\ SEUILS' = r.seuils
              /\ appel' = << [ fonction |-> "main", seuils |-> <<fichier>>,
                               avertissement |-> r.erreur ] >>
    /\ pc' = "init"
    /\ UNCHANGED <<fichier_stats, stats_2024, stats_2025, stats_cache,
                   matchs_input, analyses, paris_du_jour, historique, runs>>

NextSeuils ==
    \/ sans_seuils_custom
    \/ charger_seuils
    \/ erreur_chargement_stats
    \/ charger_stats_equipes
    \/ relance_aucun_match
    \/ relance_generer

SpecSeuils == InitSeuils /\ [][NextSeuils]_vars

---------------------------------------------------------------------------
(* The results updater (recuperer_resultats_veille.py) interleaved with    *)
(* runs of the engine on the same history file.  A team name is <<word,    *)
(* id>> and a match name <<home, separator, away>>; results_data is the    *)
(* dict in insertion order, a sequence of [cle, resultat].  The names of   *)
(* the model hold no hyphen.  A row read by csv.DictReader has the value   *)
(* None for a column its line lacks and no key for a column the header     *)
(* lacks; both are falsy and both are written as the empty string, which   *)
(* is what Lire gives.                                                     *)

\* str.lower() on the words of the model
Minuscule(mot) ==
    CASE mot = "Equipe" -> "equipe"
      [] mot = "EQUIPE" -> "equipe"
      [] mot = "Autre" -> "autre"
      [] mot = "VS" -> "vs"
      [] OTHER -> mot

\* match_name.lower().replace(" vs ", " v ").replace("-", " ").strip()
normalize_match_name(match_name) ==
    << <<Minuscule(match_name[1][1]), match_name[1][2]>>,
       IF Minuscule(match_name[2]) = "vs" THEN "v" ELSE Minuscule(match_name[2]),
       <<Minuscule(match_name[3][1]), match_name[3][2]>> >>

\* the entry main() stores for a finished fixture
ResultatMatch(home_goals, away_goals) ==
    [ over15 |-> IF home_goals + away_goals > 1 THEN "WIN" ELSE "LOSS",
      home_or_draw |-> IF home_goals >= away_goals THEN "WIN" ELSE "LOSS",
      away_or_draw |-> IF away_goals >= home_goals THEN "WIN" ELSE "LOSS" ]

\* row.get(colonne), None read as ''
Lire(row, colonne) == IF colonne \in DOMAIN row THEN row[colonne] ELSE ""

\* the loop `for key in results_data` from entry i on: the index of the
\* first key equal to match_key once normalised, 0 when there is none
RECURSIVE ChercherResultat(_, _, _)
ChercherResultat(results_data, match_key, i) ==
    IF i > Len(results_data) THEN 0
    ELSE IF normalize_match_name(results_data[i].cle) = normalize_match_name(match_key)
    THEN i
    ELSE ChercherResultat(results_data, match_key, i + 1)

\* 'A ou Nul' in decision
ContientAOuNul(decision) == decision \in {"UltraSafe A ou Nul", "Safe A ou Nul"}

\* 'B ou Nul' in decision
ContientBOuNul(decision) == decision \in {"UltraSafe B ou Nul", "Safe B ou Nul"}

\* the body of the loop over the rows, every result stored whether or not
\* the row already holds one
mettre_a_jour_ligne_ecrase(row, results_data, date_str) ==
    LET k == ChercherResultat(results_data, row.Match, 1)
        ancien_over15 == Lire(row, "Resultat_Over15")
        ancien_result == Lire(row, "Resultat_Result")
    IN  IF row.Date # date_str \/ k = 0
        THEN [ Resultat_Over15 |-> ancien_over15, Resultat_Result |-> ancien_result ] @@ row
        ELSE LET match_result == results_data[k].resultat
             IN  [ Resultat_Over15 |->
                       IF row.Decision_Over15 # "Eviter"
                       THEN match_result.over15 ELSE ancien_over15,
                   Resultat_Result |->
                       IF row.Decision_Result # "Eviter"
                       THEN IF ContientAOuNul(row.Decision_Result)
                            THEN match_result.home_or_draw
                            ELSE IF ContientBOuNul(row.Decision_Result)
                            THEN match_result.away_or_draw
                            ELSE ancien_result
                       ELSE ancien_result ] @@ row

\* the body of the loop over the rows, and the row as DictWriter writes it
mettre_a_jour_ligne(row, results_data, date_str) ==
    LET k == ChercherResultat(results_data, row.Match, 1)
        ancien_over15 == Lire(row, "Resultat_Over15")
        ancien_result == Lire(row, "Resultat_Result")
    IN  IF row.Date # date_str \/ k = 0
        THEN [ Resultat_Over15 |-> ancien_over15, Resultat_Result |-> ancien_result ] @@ row
        ELSE LET match_result == results_data[k].resultat
             IN  [ Resultat_Over15 |->
                       IF row.Decision_Over15 # "Eviter" /\ ancien_over15 = ""
                       THEN match_result.over15 ELSE ancien_over15,
                   Resultat_Result |->
                       IF row.Decision_Result # "Eviter" /\ ancien_result = ""
                       THEN IF ContientAOuNul(row.Decision_Result)
                            THEN match_result.home_or_draw
                            ELSE IF ContientBOuNul(row.Decision_Result)
                            THEN match_result.away_or_draw
                            ELSE ancien_result
                       ELSE ancien_result ] @@ row

\* the header with the columns Resultat_Over15 and Resultat_Result
ENTETE_AVEC_RESULTATS == [ genre |-> "entete", resultats |-> TRUE ]

\* update_historique_with_results(historique_path, results_data, date_str)
update_historique_with_results(fichier, results_data, date_str) ==
    IF ~fichier.existe THEN fichier
    ELSE [ existe |-> TRUE,
           lignes |-> [ i \in 1..Len(fichier.lignes) |->
                          IF fichier.lignes[i].genre = "entete"
                          THEN ENTETE_AVEC_RESULTATS
                          ELSE mettre_a_jour_ligne(fichier.lignes[i], results_data,
                                                   date_str) ] ]

\* a low-scoring team
Ferme ==
    [ played_total |-> <<20, 1>>, wins_total |-> <<5, 1>>, gf_avg |-> <<1, 2>>,
      ga_avg |-> <<1, 2>>, clean_sheets_total |-> <<10, 1>>,
      failed_to_score_total |-> <<10, 1>>, over15_rate |-> <<2, 5>> ]

FichiersStatsResultats ==
    { [ existe |-> TRUE,
        lignes |-> <<Ligne(1, 39, "2024", TRUE, Fort), Ligne(2, 39, "2024", TRUE, Ferme)>> ] }

FichiersMatchsResultats ==
    { FichierJson(<< <<2, 2>>, <<1, 2>> >>), FichierJson(<< <<2, 1>> >>),
      FichierJson(<< <<1, 2>>, <<1, 1>> >>) }

NomMatch(mot_a, id_a, mot_b, id_b) == << <<mot_a, id_a>>, "vs", <<mot_b, id_b>> >>

CleResultat(cle, home_goals, away_goals) ==
    [ cle |-> cle, resultat |-> ResultatMatch(home_goals, away_goals) ]

\* the dicts of results the updater is called with
ResultatsPossibles ==
    { <<>>,
      << CleResultat(NomMatch("Equipe", 2, "Equipe", 2), 2, 0) >>,
      << CleResultat(NomMatch("EQUIPE", 1, "Equipe", 2), 0, 1) >>,
      << CleResultat(NomMatch("Equipe", 1, "Equipe", 2), 1, 1),
         CleResultat(NomMatch("EQUIPE", 1, "EQUIPE", 2), 0, 0) >>,
      << CleResultat(NomMatch("Equipe", 2, "Equipe", 1), 0, 0),
         CleResultat(NomMatch("Equipe", 2, "Equipe", 2), 1, 1) >>,
      << CleResultat(NomMatch("Autre", 3, "Equipe", 2), 3, 1) >> }

\* the most calls of the updater in a behaviour
MaxMisesAJour == 2

InitResultats ==
    /\ pc = "init"
    /\ SEUILS = SeuilsDefaut
    /\ fichier_stats \in FichiersStatsResultats
    /\ stats_2024 = DictVide
    /\ stats_2025 = DictVide
    /\ stats_cache = DictVide
    /\ matchs_input = <<>>
    /\ analyses = <<>>
    /\ paris_du_jour = FichierAbsent
    /\ historique = FichierAbsent
    /\ appel = None
    /\ runs = <<>>

\* the calls of the updater so far
MisesAJour == IF appel = None THEN 0 ELSE appel[1].n

\* a run of recuperer_resultats_veille.py between two steps of the engine
mettre_a_jour_historique ==
    /\ MisesAJour < MaxMisesAJour
    /\ \E results_data \in ResultatsPossibles, date_str \in 1..MaxRuns :
          /\ historique' = update_historique_with_results(historique, results_data, date_str)
          /\ appel' = << [ fonction |-> "update_historique_with_results",
                           results_data |-> results_data,
                           date_str |-> date_str,
                           avant |-> historique,
                           n |-> MisesAJour + 1 ] >>
    /\ UNCHANGED <<pc, SEUILS, fichier_stats, stats_2024, stats_2025, stats_cache,
                   matchs_input, analyses, paris_du_jour, runs>>

resultats_generer == main_generer_parmi(FichiersMatchsResultats)

NextResultats ==
    \/ charger_stats_equipes
    \/ resultats_generer
    \/ relancer
    \/ mettre_a_jour_historique

SpecResultats == InitResultats /\ [][NextResultats]_vars

---------------------------------------------------------------------------
(* The HTTP helpers of the retrieval scripts: api_get (the same loop in    *)
(* recuperer_matchs_jour.py, generer_stats_equipes.py and                  *)
(* recuperer_resultats_veille.py) and requete_api (recuperer_team_ids.py). *)
(* A response is [status, corps]; status 0 stands for requests.get raising *)
(* (timeout, connection error) and the corps "illisible" for a body that   *)
(* r.json() rejects.  One step of the model is one iteration of the loop.  *)

\* the statuses after which api_get may try again
STATUTS_RETRY == {429, 500, 502, 503, 504}

\* one iteration of the loop of api_get, any status but 200 tried again
etape_api_get_tout_statut(reponse, attempt, max_retry) ==
    IF reponse.status = 0 THEN "raise"
    ELSE IF reponse.status = 200
    THEN IF reponse.corps = "illisible" THEN "raise" ELSE "return"
    ELSE IF attempt < max_retry THEN "continue"
    ELSE "raise"

\* one iteration of the loop of api_get on the response of its request
etape_api_get(reponse, attempt, max_retry) ==
    IF reponse.status = 0 THEN "raise"
    ELSE IF reponse.status = 200
    THEN IF reponse.corps = "illisible" THEN "raise" ELSE "return"
    ELSE IF reponse.status \in STATUTS_RETRY /\ attempt < max_retry THEN "continue"
    ELSE "raise"

\* one iteration of the loop of requete_api on the response of its request
etape_requete_api(reponse, tentative, max_retry) ==
    IF reponse.status = 0 THEN "raise"
    ELSE IF reponse.status = 200
    THEN IF reponse.corps = "illisible" THEN "raise" ELSE "return"
    ELSE IF reponse.status = 404 THEN "return_vide"
    ELSE IF tentative < max_retry THEN "continue"
    ELSE "raise"

\* {"response": [], "results": 0}
REPONSE_VIDE == "vide"

\* the most attempts a caller asks for
MaxRetry == 3

Reponse(status, corps) == [ status |-> status, corps |-> corps ]

ReponsesPossibles ==
    { Reponse(200, c) : c \in {"corps_a", "corps_b", "illisible"} }
        \cup { Reponse(st, "") : st \in {0, 400, 404, 429, 500, 503} }

InitApi ==
    /\ pc = "api_debut"
    /\ SEUILS = SeuilsDefaut
    /\ fichier_stats = FichierAbsent
    /\ stats_2024 = DictVide
    /\ stats_2025 = DictVide
    /\ stats_cache = DictVide
    /\ matchs_input = <<>>
    /\ analyses = <<>>
    /\ paris_du_jour = FichierAbsent
    /\ historique = FichierAbsent
    /\ appel = None
    /\ runs = <<>>

\* a script calls one of the two helpers; attempt is the loop variable
api_appel ==
    /\ pc = "api_debut"
    /\ \E fonction \in {"api_get", "requete_api"}, max_retry \in 0..MaxRetry :
          appel' = << [ fonction |-> fonction,
                        max_retry |-> max_retry,
                        attempt |-> 1,
                        requetes |-> <<>>,
                        issue |-> "en_cours",
                        retour |-> "" ] >>
    /\ pc' = "api_boucle"
    /\ UNCHANGED <<SEUILS, fichier_stats, stats_2024, stats_2025, stats_cache,
                   matchs_input, analyses, paris_du_jour, historique, runs>>

\* one iteration: the request, then return, raise, or sleep and continue
api_iteration ==
    /\ pc = "api_boucle"
    /\ appel[1].attempt <= appel[1].max_retry
    /\ \E reponse \in ReponsesPossibles :
          LET c == appel[1]
              suite == IF c.fonction = "api_get"
                       THEN etape_api_get(reponse, c.attempt, c.max_retry)
                       ELSE etape_requete_api(reponse, c.attempt, c.max_retry)
              envoyees == Append(c.requetes, reponse)
          IN  /\ appel' = << [ c EXCEPT !.requetes = envoyees,
                                        !.attempt = IF suite = "continue" THEN @ + 1 ELSE @,
                                        !.issue = suite,
                                        !.retour = CASE suite = "return" -> reponse.corps
                                                     [] suite = "return_vide" -> REPONSE_VIDE
                                                     [] OTHER -> "" ] >>
              /\ pc' = IF suite = "continue" THEN "api_boucle" ELSE "api_fin"
    /\ UNCHANGED <<SEUILS, fichier_stats, stats_2024, stats_2025, stats_cache,
                   matchs_input, analyses, paris_du_jour, historique, runs>>

\* the loop is over without a return or a raise: the raise after the loop
api_retries_epuises ==
    /\ pc = "api_boucle"
    /\ appel[1].attempt > appel[1].max_retry
    /\ appel' = << [ appel[1] EXCEPT !.issue = "raise" ] >>
    /\ pc' = "api_fin"
    /\ UNCHANGED <<SEUILS, fichier_stats, stats_2024, stats_2025, stats_cache,
                   matchs_input, analyses, paris_du_jour, historique, runs>>

NextApi ==
    \/ api_appel
    \/ api_iteration
    \/ api_retries_epuises

SpecApi == InitApi /\ [][NextApi]_vars

\* requests.get has a timeout and time.sleep returns: a call that can take
\* a step takes it
SpecApiEquitable == SpecApi /\ WF_vars(NextApi)

---------------------------------------------------------------------------
(* Properties.                                                             *)

\* the MatchAnalysis of the run that evaluate the pair (a, b)
AnalysesDe(a, b) ==
    { i \in 1..Len(analyses) :
        analyses[i].equipe_a_id = a /\ analyses[i].equipe_b_id = b }

\* C1: for every pair of teams A, B of the Rating Cache, calculer_rsi(A, B)
\* returns (rsi_a, rsi_b) with rsi_b = -rsi_a, and calculer_rsi(B, A) returns
\* the same two values exchanged; every MatchAnalysis of a run carries such
\* a pair.
C1_RsiAntisymetrique ==
    /\ \A a \in DOMAIN stats_cache, b \in DOMAIN stats_cache :
          LET ab == calculer_rsi(stats_cache[a], stats_cache[b])
              ba == calculer_rsi(stats_cache[b], stats_cache[a])
          IN  /\ ab[2] = RNeg(ab[1])
              /\ ba = <<ab[2], ab[1]>>
    /\ \A i \in 1..Len(analyses) :
          /\ analyses[i].rsi_b = RNeg(analyses[i].rsi_a)
          /\ \A j \in AnalysesDe(analyses[i].equipe_b_id, analyses[i].equipe_a_id) :
                /\ analyses[j].rsi_a = analyses[i].rsi_b
                /\ analyses[j].rsi_b = analyses[i].rsi_a

\* C1 witness: a run evaluated a pair of distinct teams in both orders, with
\* a non-zero index
C1_Temoin ==
    /\ pc = "termine"
    /\ \E i \in AnalysesDe(1, 2), j \in AnalysesDe(2, 1) :
          /\ RGt(analyses[i].rsi_a, Zero)
          /\ RLt(analyses[j].rsi_a, Zero)

\* rates an over_1_5_rate can take in the cache
TauxOver15 == Centiemes({1, 30, 45, 50, 62, 80, 95, 100})

\* C2: for every pair of cached teams, over_index = 1 - (1 - rate_a) *
\* (1 - rate_b), lies in [0, 1], and does not decrease when the rate of
\* either team is raised and the other team is left as it is.
C2_O15IProbabiliste ==
    \A a \in DOMAIN stats_cache, b \in DOMAIN stats_cache :
        LET ta == stats_cache[a]
            tb == stats_cache[b]
            o15i == calculer_o15i(ta, tb)
        IN  /\ o15i = RSub(One, RMul(RSub(One, ta.over15_rate), RSub(One, tb.over15_rate)))
            /\ RLe(Zero, o15i) /\ RLe(o15i, One)
            /\ \A c \in DOMAIN stats_cache :
                  RLe(ta.over15_rate, stats_cache[c].over15_rate) =>
                      /\ RLe(o15i, calculer_o15i(stats_cache[c], tb))
                      /\ RLe(calculer_o15i(tb, ta), calculer_o15i(tb, stats_cache[c]))
            /\ \A r \in TauxOver15 :
                  LET plus == [ta EXCEPT !.over15_rate = r]
                  IN  RLe(ta.over15_rate, r) =>
                          /\ RLe(o15i, calculer_o15i(plus, tb))
                          /\ RLe(calculer_o15i(tb, ta), calculer_o15i(tb, plus))

\* C2 witness: a run evaluated two teams whose rates are both 0.5, with an
\* over_index of 0.75, and the cache holds two teams of different rates
C2_Temoin ==
    /\ pc = "termine"
    /\ \E i \in 1..Len(analyses) :
          /\ stats_cache[analyses[i].equipe_a_id].over15_rate = <<1, 2>>
          /\ stats_cache[analyses[i].equipe_b_id].over15_rate = <<1, 2>>
          /\ analyses[i].o15i = <<3, 4>>
    /\ \E a \in DOMAIN stats_cache, b \in DOMAIN stats_cache :
          RLt(stats_cache[a].over15_rate, stats_cache[b].over15_rate)

---------------------------------------------------------------------------

ChampsFusionnes == {"played_total", "wins_total", "gf_avg", "ga_avg",
                    "clean_sheets_total", "failed_to_score_total"}

\* the weights the blending rule prescribes: (current, prior)
PoidsAttendus(s25) ==
    LET played_current == IF s25.played_total = None THEN Zero ELSE s25.played_total
    IN  IF RLt(played_current, <<8, 1>>)
        THEN <<(<<3, 10>>), (<<7, 10>>)>>
        ELSE <<(<<7, 10>>), (<<3, 10>>)>>

\* the value the blending rule prescribes for a field that at least one
\* season has
ValeurFusionnee(s24, s25, f) ==
    IF s25[f] # None /\ s24[f] # None
    THEN RAdd(RMul(PoidsAttendus(s25)[1], s25[f]), RMul(PoidsAttendus(s25)[2], s24[f]))
    ELSE IF s25[f] # None THEN s25[f] ELSE s24[f]

UneSaisonAuMoins(s24, s25, f) == s25[f] # None \/ s24[f] # None

\* C3: in the Season Blender, each of the six fields that both seasons have
\* is blended as weight_current * value_current + weight_prior * value_prior,
\* the weights being (0.3, 0.7) when the current season's played_total,
\* 0 if absent, is below 8 and (0.7, 0.3) otherwise, the same for every
\* field of the team; a field that one season only has keeps that value.
\* gf_avg and ga_avg reach the TeamStats as blended.
C3_FusionPonderee ==
    \A t \in DOMAIN stats_cache :
        LET s24 == StatsDe(stats_2024, t)
            s25 == StatsDe(stats_2025, t)
            stats_final == StatsFinal(s24, s25)
        IN  \A f \in ChampsFusionnes :
                UneSaisonAuMoins(s24, s25, f) =>
                    /\ stats_final[f] = ValeurFusionnee(s24, s25, f)
                    /\ f \in {"gf_avg", "ga_avg"} =>
                           stats_cache[t][f] = ValeurFusionnee(s24, s25, f)

\* C3 witness: a cached team whose current season has 4 matches: gf_avg is
\* blended 0.3 * 2 + 0.7 * 0.5, played_total 0.3 * 4 + 0.7 * 20 (stored as
\* int(15.2)), and wins_total, known for the prior season only, is kept
C3_Temoin ==
    /\ pc = "stats_chargees"
    /\ 1 \in DOMAIN stats_2024 /\ 1 \in DOMAIN stats_2025
    /\ stats_2025[1].stats.played_total = <<4, 1>>
    /\ stats_2024[1].stats.played_total = <<20, 1>>
    /\ stats_2025[1].stats.gf_avg = <<2, 1>>
    /\ stats_2024[1].stats.gf_avg = <<1, 2>>
    /\ stats_2025[1].stats.wins_total = None
    /\ stats_2024[1].stats.wins_total = <<16, 1>>
    /\ stats_cache[1].played_total = <<15, 1>>
    /\ stats_cache[1].gf_avg = <<19, 20>>
    /\ stats_cache[1].wins_total = <<16, 1>>

\* C4 as stated: an over_1_5_rate present in exactly one season is the
\* TeamStats' rate as it is; present in both, the rate is their blend.
C4_TauxUneSaisonConserve ==
    \A t \in DOMAIN stats_cache :
        LET o24 == StatsDe(stats_2024, t).over15_rate
            o25 == StatsDe(stats_2025, t).over15_rate
            poids == PoidsAttendus(StatsDe(stats_2025, t))
        IN  /\ (o25 # None /\ o24 = None) => stats_cache[t].over15_rate = o25
            /\ (o25 = None /\ o24 # None) => stats_cache[t].over15_rate = o24
            /\ (o25 # None /\ o24 # None) =>
                   stats_cache[t].over15_rate = RAdd(RMul(poids[1], o25), RMul(poids[2], o24))

\* C5 as stated: no cached TeamStats has a played_total of zero.
C5_AucuneEquipeSansMatch ==
    \A t \in DOMAIN stats_cache : RGt(stats_cache[t].played_total, Zero)

---------------------------------------------------------------------------

\* a pair both of whose teams are cached, in the same league
Evaluable(p) ==
    /\ p[1] \in DOMAIN stats_cache
    /\ p[2] \in DOMAIN stats_cache
    /\ stats_cache[p[1]].league_id = stats_cache[p[2]].league_id

LignesDonnees(fichier) ==
    SelectSeq(fichier.lignes, LAMBDA l : l.genre = "ligne")

\* C6: analyser_match returns None for a pair with a team missing from the
\* cache or with teams of two leagues, and an analysis for any other pair;
\* after a run the analyses and the history rows are those of the remaining
\* pairs, one each and in input order, and every recommendation row is that
\* of a remaining pair.
C6_PaireInevaluableIgnoree ==
    /\ \A p \in IdsMatchs \X IdsMatchs :
          (analyser_match(stats_cache, SEUILS, p[1], p[2]) = None) <=> ~Evaluable(p)
    /\ pc = "termine" =>
          LET restantes == SelectSeq(matchs_input, Evaluable)
              lignes == LignesDonnees(historique)
          IN  /\ Len(analyses) = Len(restantes)
              /\ Len(lignes) = Len(restantes)
              /\ \A i \in 1..Len(restantes) :
                    /\ <<analyses[i].equipe_a_id, analyses[i].equipe_b_id>> = restantes[i]
                    /\ <<lignes[i].Equipe_A_ID, lignes[i].Equipe_B_ID>> = restantes[i]
              /\ \A k \in 1..Len(paris_du_jour.lignes) :
                    \E i \in 1..Len(restantes) :
                        /\ paris_du_jour.lignes[k].Equipe_A = stats_cache[restantes[i][1]].team_name
                        /\ paris_du_jour.lignes[k].Equipe_B = stats_cache[restantes[i][2]].team_name

\* C6 witness: a run whose first pair is of two cached teams of different
\* leagues and whose second pair is evaluated: one history row, for the
\* second pair
C6_Temoin ==
    /\ pc = "termine"
    /\ Len(matchs_input) = 2
    /\ matchs_input[1] = <<1, 2>>
    /\ 1 \in DOMAIN stats_cache /\ 2 \in DOMAIN stats_cache
    /\ stats_cache[1].league_id # stats_cache[2].league_id
    /\ matchs_input[2] = <<1, 1>>
    /\ Len(LignesDonnees(historique)) = 1
    /\ LignesDonnees(historique)[1].Equipe_A_ID = 1
    /\ LignesDonnees(historique)[1].Equipe_B_ID = 1
    /\ Len(paris_du_jour.lignes) > 0

PorteFlag(flags, nom) == \E i \in 1..Len(flags) : flags[i] = nom

\* C7: in every MatchAnalysis the result decision is "UltraSafe A ou Nul"
\* or "UltraSafe B ou Nul" only if echantillon_combine_faible is not among
\* its flags, and no UltraSafe_Result row of paris_du_jour.csv carries it.
C7_UltraSansEchantillonCombine ==
    /\ \A i \in 1..Len(analyses) :
          analyses[i].decision_result \in {"UltraSafe A ou Nul", "UltraSafe B ou Nul"}
              => ~PorteFlag(analyses[i].flags, "echantillon_combine_faible")
    /\ \A k \in 1..Len(paris_du_jour.lignes) :
          paris_du_jour.lignes[k].Type = "UltraSafe_Result"
              => ~PorteFlag(paris_du_jour.lignes[k].Flags, "echantillon_combine_faible")

\* C7 witness: a run with an analysis that has the combined-sample flag, an
\* rsi_a above the penalised ultra threshold 0.65 and a decision of the safe
\* tier, and whose paris_du_jour.csv has no UltraSafe_Result row
C7_Temoin ==
    /\ pc = "termine"
    /\ \E i \in 1..Len(analyses) :
          /\ PorteFlag(analyses[i].flags, "echantillon_combine_faible")
          /\ RGe(analyses[i].rsi_a, <<13, 20>>)
          /\ analyses[i].decision_result = "Safe A ou Nul"
    /\ \A k \in 1..Len(paris_du_jour.lignes) :
          paris_du_jour.lignes[k].Type # "UltraSafe_Result"

---------------------------------------------------------------------------

\* the last call is a call of the function nom
EstAppel(nom) == appel # None /\ appel[1].fonction = nom

FlagsEchantillon ==
    {"echantillon_faible_A", "echantillon_faible_B", "echantillon_combine_faible"}

\* a flag list with at least one sample-related flag
Penalise(flags) == \E i \in 1..Len(flags) : flags[i] \in FlagsEchantillon

\* C8: the goals-over decision compares over_index with the ultra and safe
\* thresholds, raised by 0.05 and by 0.03 exactly when a sample-related flag
\* is present; it is ultra from the ultra threshold on, else moderate from
\* the safe threshold on, else avoid, and the confidence is over_index.
C8_DecisionOver15 ==
    EstAppel("prendre_decision_over15") =>
        LET c == appel[1]
            seuil_ultra == IF Penalise(c.flags) THEN RAdd(SEUILS.ultrasafe_over15, <<5, 100>>)
                           ELSE SEUILS.ultrasafe_over15
            seuil_safe == IF Penalise(c.flags) THEN RAdd(SEUILS.safe_over15, <<3, 100>>)
                          ELSE SEUILS.safe_over15
        IN  /\ c.retour[2] = c.o15i
            /\ c.retour[1] = "UltraSafe +1.5" <=> RGe(c.o15i, seuil_ultra)
            /\ c.retour[1] = "Safe +1.5" <=>
                   (RLt(c.o15i, seuil_ultra) /\ RGe(c.o15i, seuil_safe))
            /\ c.retour[1] = "Eviter +1.5" <=>
                   (RLt(c.o15i, seuil_ultra) /\ RLt(c.o15i, seuil_safe))

\* C8 witness: a call with the large-gap flag alone and an over_index equal
\* to the unpenalised ultra threshold 0.78, decided ultra
C8_Temoin ==
    /\ EstAppel("prendre_decision_over15")
    /\ appel[1].flags = <<"gap_niveau_important">>
    /\ appel[1].o15i = <<39, 50>>
    /\ appel[1].retour = <<"UltraSafe +1.5", <<39, 50>>>>

\* the side a result decision favours: "A", "B" or "aucun"
Cote(decision) ==
    IF decision \in {"UltraSafe A ou Nul", "Safe A ou Nul"} THEN "A"
    ELSE IF decision \in {"UltraSafe B ou Nul", "Safe B ou Nul"} THEN "B"
    ELSE "aucun"

\* C9: the result decision is for A as soon as A's index clears the
\* penalised safe threshold, whatever B's index; it is for B only when A's
\* does not and B's does; the tier of the chosen side is ultra when its
\* index clears the penalised ultra threshold and the combined-sample flag
\* is absent; the confidence is the chosen side's index; when neither index
\* clears the safe threshold the decision is avoid with confidence
\* max(|rsi_a|, |rsi_b|).
C9_CoteAPuisCoteB ==
    EstAppel("prendre_decision_result") =>
        LET c == appel[1]
            seuil_ultra == IF Penalise(c.flags) THEN RAdd(SEUILS.ultrasafe_result, <<5, 100>>)
                           ELSE SEUILS.ultrasafe_result
            seuil_safe == IF Penalise(c.flags) THEN RAdd(SEUILS.safe_result, <<3, 100>>)
                          ELSE SEUILS.safe_result
            ultra_permis == ~PorteFlag(c.flags, "echantillon_combine_faible")
            decision == c.retour[1]
        IN  /\ RGe(c.rsi_a, seuil_safe) =>
                  /\ Cote(decision) = "A"
                  /\ c.retour[2] = c.rsi_a
                  /\ decision = "UltraSafe A ou Nul" <=>
                         (RGe(c.rsi_a, seuil_ultra) /\ ultra_permis)
            /\ (RLt(c.rsi_a, seuil_safe) /\ RGe(c.rsi_b, seuil_safe)) =>
                  /\ Cote(decision) = "B"
                  /\ c.retour[2] = c.rsi_b
                  /\ decision = "UltraSafe B ou Nul" <=>
                         (RGe(c.rsi_b, seuil_ultra) /\ ultra_permis)
            /\ (RLt(c.rsi_a, seuil_safe) /\ RLt(c.rsi_b, seuil_safe)) =>
                  /\ decision = "Eviter Resultat"
                  /\ c.retour[2] = RMax(RAbs(c.rsi_a), RAbs(c.rsi_b))

\* C9 witness: both indices clear their thresholds, B's even the ultra one,
\* and the decision is for A at the safe tier with A's index as confidence
C9_Temoin ==
    /\ EstAppel("prendre_decision_result")
    /\ appel[1].flags = <<>>
    /\ appel[1].rsi_a = <<9, 20>>
    /\ appel[1].rsi_b = <<7, 10>>
    /\ appel[1].retour = <<"Safe A ou Nul", <<9, 20>>>>

TierOver15(decision) ==
    IF decision = "UltraSafe +1.5" THEN 2 ELSE IF decision = "Safe +1.5" THEN 1 ELSE 0

\* the tier of the match for the result bet, whichever side it favours
TierResult(decision) ==
    IF decision \in {"UltraSafe A ou Nul", "UltraSafe B ou Nul"} THEN 2
    ELSE IF decision \in {"Safe A ou Nul", "Safe B ou Nul"} THEN 1
    ELSE 0

\* the tier of the result bet in favour of one side: 0 when the decision is
\* avoid or favours the other side
TierPour(cote, decision) == IF Cote(decision) = cote THEN TierResult(decision) ELSE 0

\* the goals-over tier does not fall when over_index rises, flags fixed
Over15Monotone ==
    EstAppel("prendre_decision_over15") =>
        \A o15i \in ValeursO15I :
            RGe(o15i, appel[1].o15i) =>
                TierOver15(prendre_decision_over15(SEUILS, o15i, appel[1].flags)[1])
                    >= TierOver15(appel[1].retour[1])

\* C10 as stated: with flags fixed, neither the goals-over tier falls when
\* over_index rises, nor the result tier of the match when a team's index
\* rises, the opponent's being its negation.
C10_TierDuMatchMonotone ==
    /\ Over15Monotone
    /\ (EstAppel("prendre_decision_result") /\ appel[1].rsi_b = RNeg(appel[1].rsi_a)) =>
          \A rsi \in ValeursRSI :
              RGe(rsi, appel[1].rsi_a) =>
                  TierResult(prendre_decision_result(SEUILS, rsi, RNeg(rsi), appel[1].flags)[1])
                      >= TierResult(appel[1].retour[1])

\* C10 amended: with flags fixed, the goals-over tier does not fall when
\* over_index rises, and the result tier in favour of a team does not fall
\* when that team's index rises, the opponent's being its negation.
C10_TierDuCoteMonotone ==
    /\ Over15Monotone
    /\ (EstAppel("prendre_decision_result") /\ appel[1].rsi_b = RNeg(appel[1].rsi_a)) =>
          \A rsi \in ValeursRSI :
              /\ RGe(rsi, appel[1].rsi_a) =>
                    TierPour("A", prendre_decision_result(SEUILS, rsi, RNeg(rsi), appel[1].flags)[1])
                        >= TierPour("A", appel[1].retour[1])
              /\ RGe(rsi, appel[1].rsi_b) =>
                    TierPour("B", prendre_decision_result(SEUILS, RNeg(rsi), rsi, appel[1].flags)[1])
                        >= TierPour("B", appel[1].retour[1])

\* C10 witness: team A's index is -0.70 and B's 0.70, the match is at B's
\* ultra tier; raising A's index to 0 would leave it at avoid
C10_Temoin ==
    /\ EstAppel("prendre_decision_result")
    /\ appel[1].rsi_a = <<-7, 10>>
    /\ appel[1].rsi_b = <<7, 10>>
    /\ appel[1].flags = <<>>
    /\ appel[1].retour[1] = "UltraSafe B ou Nul"
    /\ prendre_decision_result(SEUILS, Zero, Zero, <<>>)[1] = "Eviter Resultat"

\* the thresholds of a decision function once the flags are accounted for:
\* raised by 0.05 (ultra) and 0.03 (safe) when a sample flag is present
SeuilPenalise(seuil, penalite, flags) ==
    IF Penalise(flags) THEN RAdd(seuil, penalite) ELSE seuil

\* C11: whatever the flags, an over_index at or above the penalised safe
\* threshold gives at least the moderate goals-over tier; an index of side A
\* at or above the penalised safe threshold gives at least the moderate
\* tier for A, and so does an index of side B for B when A's index is its
\* negation (and at least the moderate tier for the match whatever A's
\* index); a side whose index clears the penalised ultra threshold while
\* echantillon_combine_faible is present gets the moderate tier.
C11_PenaliseSansBloquer ==
    /\ EstAppel("prendre_decision_over15") =>
          (RGe(appel[1].o15i,
               SeuilPenalise(SEUILS.safe_over15, <<3, 100>>, appel[1].flags))
              => TierOver15(appel[1].retour[1]) >= 1)
    /\ EstAppel("prendre_decision_result") =>
          LET c == appel[1]
              seuil_ultra == SeuilPenalise(SEUILS.ultrasafe_result, <<5, 100>>, c.flags)
              seuil_safe == SeuilPenalise(SEUILS.safe_result, <<3, 100>>, c.flags)
              combine == PorteFlag(c.flags, "echantillon_combine_faible")
          IN  /\ RGe(c.rsi_a, seuil_safe) => TierPour("A", c.retour[1]) >= 1
              /\ RGe(c.rsi_b, seuil_safe) => TierResult(c.retour[1]) >= 1
              /\ (RGe(c.rsi_b, seuil_safe) /\ c.rsi_a = RNeg(c.rsi_b)) =>
                     TierPour("B", c.retour[1]) >= 1
              /\ (combine /\ RGe(c.rsi_a, seuil_ultra)) => c.retour[1] = "Safe A ou Nul"
              /\ (combine /\ RGe(c.rsi_b, seuil_ultra) /\ c.rsi_a = RNeg(c.rsi_b)) =>
                     c.retour[1] = "Safe B ou Nul"

\* C11 witness: side B's index 0.70 clears the penalised ultra threshold
\* 0.65 under the three sample flags, and the decision is B's moderate tier
C11_Temoin ==
    /\ EstAppel("prendre_decision_result")
    /\ appel[1].flags = <<"echantillon_faible_A", "echantillon_faible_B",
                          "echantillon_combine_faible">>
    /\ appel[1].rsi_a = <<-7, 10>>
    /\ appel[1].rsi_b = <<7, 10>>
    /\ appel[1].retour = <<"Safe B ou Nul", <<7, 10>>>>

\* the Rating Cache every run builds from the statistics file
CacheDuFichier ==
    IF fichier_stats.existe
    THEN LET lus == LireLignes(fichier_stats.lignes, 1, [s24 |-> DictVide, s25 |-> DictVide])
         IN  creer_stats_ponderees(DictVide, lus.s24, lus.s25)
    ELSE DictVide

\* a pair whose evaluation is not absent
NonAbsente(p) ==
    /\ p[1] \in DOMAIN CacheDuFichier
    /\ p[2] \in DOMAIN CacheDuFichier
    /\ CacheDuFichier[p[1]].league_id = CacheDuFichier[p[2]].league_id

\* the rows run r added to the history, header excluded
LignesAjoutees(r) ==
    SelectSeq(SubSeq(r.historique_apres.lignes, Len(r.historique_avant.lignes) + 1,
                     Len(r.historique_apres.lignes)),
              LAMBDA l : l.genre = "ligne")

\* C12: a run that reaches generer_paris_du_jour adds to the history one row
\* per pair whose evaluation is not absent, a pair listed twice counting
\* twice, in the order of the pairs, whether or not the evaluation reached
\* the ultra tier and whatever its rank.
C12_UneLigneParEvaluation ==
    \A k \in 1..Len(runs) :
        runs[k].code = 0 =>
            LET attendues == SelectSeq(runs[k].matchs_input, NonAbsente)
                ajoutees == LignesAjoutees(runs[k])
            IN  /\ Len(ajoutees) = Len(attendues)
                /\ \A i \in 1..Len(attendues) :
                      /\ <<ajoutees[i].Equipe_A_ID, ajoutees[i].Equipe_B_ID>> = attendues[i]
                      /\ ajoutees[i].Date = k

\* C12 witness: a second run on the pair (2, 2) listed twice, neither of
\* whose decisions is ultra: no recommendation row and two history rows
C12_Temoin ==
    /\ Len(runs) = 2
    /\ runs[2].code = 0
    /\ runs[2].matchs_input = << <<2, 2>>, <<2, 2>> >>
    /\ Len(runs[2].analyses) = 2
    /\ runs[2].paris_du_jour.lignes = <<>>
    /\ Len(LignesAjoutees(runs[2])) = 2
    /\ Len(runs[1].historique_apres.lignes) > 1

\* the rows of a recommendation file of one bet family
LignesDeType(fichier, type) ==
    SelectSeq(fichier.lignes, LAMBDA l : l.Type = type)

\* C13 as stated: after a run that reaches generer_paris_du_jour the
\* recommendation file holds one row for each evaluation of that run whose
\* goals-over decision is ultra, one row for each whose result decision is
\* ultra, and no other row.
C13_UneLigneParRecommandation ==
    \A k \in 1..Len(runs) :
        runs[k].code = 0 =>
            LET sortie == runs[k].paris_du_jour
            IN  /\ Len(LignesDeType(sortie, "UltraSafe_Over15"))
                       = Len(SelectSeq(runs[k].analyses, FiltrerOver15))
                /\ Len(LignesDeType(sortie, "UltraSafe_Result"))
                       = Len(SelectSeq(runs[k].analyses, FiltrerResult))
                /\ Len(sortie.lignes)
                       = Len(LignesDeType(sortie, "UltraSafe_Over15"))
                         + Len(LignesDeType(sortie, "UltraSafe_Result"))

\* liste is triee by champ, descending, the elements of equal champ in the
\* order they have in liste
EstTriStable(triee, liste, champ) ==
    /\ Len(triee) = Len(liste)
    /\ \A i \in 1..Len(triee) : \A j \in i..Len(triee) :
          RGe(triee[i][champ], triee[j][champ])
    /\ \A n \in 1..Len(liste) :
          SelectSeq(triee, LAMBDA a : a[champ] = liste[n][champ])
              = SelectSeq(liste, LAMBDA a : a[champ] = liste[n][champ])

\* C14: in every run the ranked list of a bet family holds the evaluations
\* whose decision for that family is ultra, and only them, by descending
\* confidence of that family, evaluations of equal confidence in evaluation
\* order.
C14_ClassementStable ==
    \A k \in 1..Len(runs) :
        /\ EstTriStable(runs[k].ultrasafe_over15,
                        SelectSeq(runs[k].analyses,
                                  LAMBDA a : a.decision_over15 = "UltraSafe +1.5"),
                        "fiabilite_over15")
        /\ EstTriStable(runs[k].ultrasafe_result,
                        SelectSeq(runs[k].analyses,
                                  LAMBDA a : a.decision_result \in
                                      {"UltraSafe A ou Nul", "UltraSafe B ou Nul"}),
                        "fiabilite_result")

\* C14 witness: four evaluations ultra for the goals-over bet; the third
\* evaluated, of the greatest confidence, is ranked first, and the three
\* others, of equal confidence, follow in evaluation order
C14_Temoin ==
    /\ Len(runs) >= 1
    /\ Len(runs[1].analyses) = 4
    /\ Len(runs[1].ultrasafe_over15) = 4
    /\ runs[1].ultrasafe_over15[1] = runs[1].analyses[3]
    /\ runs[1].ultrasafe_over15[2] = runs[1].analyses[1]
    /\ runs[1].ultrasafe_over15[3] = runs[1].analyses[2]
    /\ runs[1].ultrasafe_over15[4] = runs[1].analyses[4]
    /\ runs[1].analyses[1] # runs[1].analyses[2]
    /\ runs[1].analyses[1].fiabilite_over15 = runs[1].analyses[2].fiabilite_over15
    /\ RGt(runs[1].analyses[3].fiabilite_over15, runs[1].analyses[1].fiabilite_over15)
    /\ Len(runs[1].ultrasafe_result) = 3

\* debut is the beginning of suite
EstPrefixe(debut, suite) ==
    /\ Len(debut) <= Len(suite)
    /\ SubSeq(suite, 1, Len(debut)) = debut

\* C15: over any sequence of runs, every step leaves the rows the history
\* already had where they were and unchanged, adding rows only after them;
\* a header is added only by the step that creates the file, so that the
\* file, once it exists, has one header row, the first.
C15_HistoriqueAjoutSeul ==
    [][ /\ historique.existe => historique'.existe
        /\ EstPrefixe(historique.lignes, historique'.lignes)
        /\ \A i \in 1..Len(historique'.lignes) :
              (historique'.lignes[i].genre = "entete") <=> (i = 1)
        /\ historique.existe =>
              \A i \in (Len(historique.lignes) + 1)..Len(historique'.lignes) :
                  historique'.lignes[i].genre = "ligne"
        /\ historique'.existe => Len(historique'.lignes) >= 1 ]_vars

\* C15 witness: two runs have each added rows to the history, the rows of
\* the second after those of the first, under the header the first wrote
C15_Temoin ==
    /\ Len(runs) = 2
    /\ ~runs[1].historique_avant.existe
    /\ Len(LignesAjoutees(runs[1])) >= 1
    /\ Len(LignesAjoutees(runs[2])) >= 1
    /\ historique.lignes[1] = ENTETE_HISTORIQUE
    /\ Len(historique.lignes)
           = 1 + Len(LignesAjoutees(runs[1])) + Len(LignesAjoutees(runs[2]))
    /\ historique.lignes[2].Date = 1
    /\ historique.lignes[Len(historique.lignes)].Date = 2

\* C16 as stated: a run that finds no match pair (match file missing, empty
\* or without usable entry) writes the recommendation file and ends with
\* exit status 0.
C16_SansMatchSucces ==
    \A k \in 1..Len(runs) :
        (runs[k].etape # "stats" /\ runs[k].matchs_input = <<>>) =>
            /\ runs[k].code = 0
            /\ runs[k].paris_du_jour.existe

\* C17 as stated: a run whose statistics file is missing, or whose Rating
\* Cache is empty once the file is loaded, ends with a non-zero exit status
\* and writes no recommendation file.
C17_CacheVideFatal ==
    \A k \in 1..Len(runs) :
        (~fichier_stats.existe \/ DOMAIN CacheDuFichier = {}) =>
            /\ runs[k].code # 0
            /\ ~runs[k].paris_du_jour.existe

\* an entry with its two ids
EntreeBienFormee(e) == e.genre = "objet" /\ e.team_a_id # None /\ e.team_b_id # None

\* the pairs of the well-formed entries of a match file, in file order
PairesBienFormees(fichier_matchs) ==
    LET bonnes == SelectSeq(fichier_matchs.entrees, EntreeBienFormee)
    IN  [ i \in 1..Len(bonnes) |-> <<bonnes[i].team_a_id[1], bonnes[i].team_b_id[1]>> ]

\* C18 as stated: charger_matchs_du_jour returns, for a JSON or a CSV file,
\* the pairs of all its well-formed entries in file order, an entry without
\* one of its ids or malformed being the only one dropped.
C18_EntreeInvalideSeuleIgnoree ==
    EstAppel("charger_matchs_du_jour") =>
        appel[1].retour = PairesBienFormees(appel[1].fichier_matchs)

\* the sequences holding each element of the finite set S once
Ordres(S) ==
    { ordre \in [1..Cardinality(S) -> S] : \A x \in S : \E i \in DOMAIN ordre : ordre[i] = x }

\* a history row without its date
SansDate(l) == [ l EXCEPT !.Date = 0 ]

\* the rows run r added to the history, their dates erased
AjouteesSansDate(r) ==
    LET ajoutees == LignesAjoutees(r)
    IN  [ i \in 1..Len(ajoutees) |-> SansDate(ajoutees[i]) ]

\* C19: two runs of a behaviour, hence on the same statistics file and
\* thresholds, that are given the same match pairs leave the same
\* recommendation file and add the same rows to the history, dates apart
\* (whatever the history held before each), a header being added exactly
\* when the history did not exist; the Rating Cache is the same whatever
\* the order in which the loop of the blender takes the team ids and
\* whatever the order of the lines of the statistics file.
C19_RunsIdentiques ==
    /\ \A j \in 1..Len(runs) : \A k \in 1..Len(runs) :
          (runs[j].code = 0 /\ runs[k].code = 0
              /\ runs[j].matchs_input = runs[k].matchs_input) =>
              /\ runs[j].paris_du_jour = runs[k].paris_du_jour
              /\ AjouteesSansDate(runs[j]) = AjouteesSansDate(runs[k])
    /\ \A k \in 1..Len(runs) :
          runs[k].code = 0 =>
              (Len(runs[k].historique_apres.lignes)
                   = Len(runs[k].historique_avant.lignes) + Len(LignesAjoutees(runs[k]))
                     + (IF runs[k].historique_avant.existe THEN 0 ELSE 1))
    /\ fichier_stats.existe =>
          \A ordre_lignes \in Ordres(DOMAIN fichier_stats.lignes) :
              LET lignes == [ i \in DOMAIN ordre_lignes |-> fichier_stats.lignes[ordre_lignes[i]] ]
                  lus == LireLignes(lignes, 1, [s24 |-> DictVide, s25 |-> DictVide])
              IN  \A ordre \in Ordres(DOMAIN lus.s24 \cup DOMAIN lus.s25) :
                      /\ BouclePonderation(DictVide, lus.s24, lus.s25, ordre, 1) = CacheDuFichier
                      /\ pc \in {"stats_chargees", "termine"} => stats_cache = CacheDuFichier

\* C19 witness: two successive runs on the same pairs, each with
\* recommendations and history rows, on two different days
C19_Temoin ==
    /\ Len(runs) = 2
    /\ runs[1].code = 0 /\ runs[2].code = 0
    /\ runs[1].matchs_input = runs[2].matchs_input
    /\ Len(runs[1].paris_du_jour.lignes) >= 2
    /\ Len(LignesAjoutees(runs[2])) >= 2
    /\ LignesAjoutees(runs[1])[1].Date # LignesAjoutees(runs[2])[1].Date
    /\ runs[1].historique_avant # runs[2].historique_avant

\* C20 as stated: a cached team whose 2025 played_total is at least 8 and
\* whose 2024 played_total is present and positive has a stored played_total
\* strictly between the two.
C20_MatchsJouesEntreSaisons ==
    pc = "stats_chargees" =>
        \A t \in DOMAIN stats_cache :
            LET joues_2025 == StatsDe(stats_2025, t).played_total
                joues_2024 == StatsDe(stats_2024, t).played_total
            IN  (/\ joues_2025 # None /\ joues_2024 # None
                 /\ RGe(joues_2025, <<8, 1>>) /\ RGt(joues_2024, Zero)) =>
                    /\ RLt(RMin(joues_2025, joues_2024), stats_cache[t].played_total)
                    /\ RLt(stats_cache[t].played_total, RMax(joues_2025, joues_2024))

\* the cached team has the base statistics of profil and no raw
\* clean-sheet or failed-to-score count
EstProfil(team, profil) ==
    /\ team.played_total = profil.played_total
    /\ team.wins_total = profil.wins_total
    /\ team.gf_avg = profil.gf_avg
    /\ team.ga_avg = profil.ga_avg
    /\ team.clean_sheets_total = None
    /\ team.failed_to_score_total = None

\* C21 as stated: with the default thresholds, the evaluation of team A
\* (20 played, 12 wins, 2.0 for, 0.8 against) against team B (20 played,
\* 6 wins, 1.0 for, 1.5 against) of the same league has rsi_a > 0.2 and a
\* result decision for A at the moderate or the ultra tier.
C21_ExempleFavoriseA ==
    \A k \in 1..Len(runs) : \A i \in 1..Len(runs[k].analyses) :
        LET a == runs[k].analyses[i]
        IN  (/\ SEUILS = SeuilsDefaut
             /\ EstProfil(CacheDuFichier[a.equipe_a_id], ExempleA)
             /\ EstProfil(CacheDuFichier[a.equipe_b_id], ExempleB)) =>
                /\ RGt(a.rsi_a, <<1, 5>>)
                /\ a.decision_result \in {"UltraSafe A ou Nul", "Safe A ou Nul"}

\* C22 as stated: every cached TeamStats has 0 <= win_rate <= 1 and
\* played_total >= 0, the season records being each coherent on its own.
C22_TauxDeVictoireBorne ==
    \A t \in DOMAIN stats_cache :
        /\ RLe(Zero, stats_cache[t].win_rate)
        /\ RLe(stats_cache[t].win_rate, One)
        /\ RLe(Zero, stats_cache[t].played_total)

\* clamp(0.3, 0.95, x)
Borne(x) ==
    IF RLt(x, <<3, 10>>) THEN <<3, 10>> ELSE IF RGt(x, <<19, 20>>) THEN <<19, 20>> ELSE x

\* C23: every cached TeamStats has an over15_rate; when neither season
\* record has one it is clamp(0.3, 0.95, (gf_avg + ga_avg) / 3) of the
\* blended averages, hence within [0.3, 0.95].
C23_TauxEstime ==
    \A t \in DOMAIN stats_cache :
        LET team == stats_cache[t]
            o24 == StatsDe(stats_2024, t).over15_rate
            o25 == StatsDe(stats_2025, t).over15_rate
        IN  /\ team.over15_rate # None
            /\ (o24 = None /\ o25 = None) =>
                  /\ team.over15_rate = Borne(RDiv(RAdd(team.gf_avg, team.ga_avg), <<3, 1>>))
                  /\ RLe(<<3, 10>>, team.over15_rate)
                  /\ RLe(team.over15_rate, <<19, 20>>)

\* C23 witness: a cached team without over15_rate in either season whose
\* goal averages add up to 3: the estimate 1.0 is stored as 0.95
C23_Temoin ==
    /\ pc = "stats_chargees"
    /\ \E t \in DOMAIN stats_cache :
          /\ StatsDe(stats_2024, t).over15_rate = None
          /\ StatsDe(stats_2025, t).over15_rate = None
          /\ RAdd(stats_cache[t].gf_avg, stats_cache[t].ga_avg) = <<3, 1>>
          /\ stats_cache[t].over15_rate = <<19, 20>>

\* max(played_total, 1)
JouesAuMoinsUn(team) == IF RLt(team.played_total, One) THEN One ELSE team.played_total

\* C24 as stated: a cached team whose failed_to_score_total is known in a
\* season, even as 0, has reliability_attack = 1 - failed_to_score_total /
\* played_total, and min(gf_avg / 1.5, 0.95) only when the count is known in
\* neither season; likewise reliability_defense = clean_sheets_total /
\* played_total when clean_sheets_total is known, max(0, 1 - ga_avg / 1.5)
\* otherwise.
C24_FiabiliteExacte ==
    \A t \in DOMAIN stats_cache :
        LET team == stats_cache[t]
            s24 == StatsDe(stats_2024, t)
            s25 == StatsDe(stats_2025, t)
        IN  /\ IF UneSaisonAuMoins(s24, s25, "failed_to_score_total")
               THEN team.reliability_attack
                        = RSub(One, RDiv(RInt(ValeurFusionnee(s24, s25, "failed_to_score_total")),
                                         JouesAuMoinsUn(team)))
               ELSE team.reliability_attack
                        = RMin(RDiv(team.gf_avg, <<3, 2>>), <<19, 20>>)
            /\ IF UneSaisonAuMoins(s24, s25, "clean_sheets_total")
               THEN team.reliability_defense
                        = RDiv(RInt(ValeurFusionnee(s24, s25, "clean_sheets_total")),
                               JouesAuMoinsUn(team))
               ELSE team.reliability_defense
                        = RMax(Zero, RSub(One, RDiv(team.ga_avg, <<3, 2>>)))

\* |goal_diff_avg_A - goal_diff_avg_B| of an analysis
EcartNiveau(a) ==
    RAbs(RSub(stats_cache[a.equipe_a_id].goal_diff_avg,
              stats_cache[a.equipe_b_id].goal_diff_avg))

\* the flags among noms, as a set
FlagsParmi(flags, noms) == { n \in noms : PorteFlag(flags, n) }

\* the four flags an evaluation may carry
NomsFlags ==
    {"echantillon_faible_A", "echantillon_faible_B", "echantillon_combine_faible",
     "gap_niveau_important"}

\* C25: each MatchAnalysis carries echantillon_faible_A iff A's played_total
\* is below played_min, echantillon_faible_B iff B's is, echantillon_combine_faible
\* iff the sum of both is below played_combine_min, gap_niveau_important iff
\* the goal-difference averages differ by more than 2.0 (exactly 2.0 raises
\* none), each at most once and nothing else; and every pair of two cached
\* teams of one league has its analysis whatever the flags.
C25_FlagsExacts ==
    /\ \A i \in 1..Len(analyses) :
          LET a == analyses[i]
              team_a == stats_cache[a.equipe_a_id]
              team_b == stats_cache[a.equipe_b_id]
          IN  /\ PorteFlag(a.flags, "echantillon_faible_A")
                    <=> RLt(team_a.played_total, SEUILS.played_min)
              /\ PorteFlag(a.flags, "echantillon_faible_B")
                    <=> RLt(team_b.played_total, SEUILS.played_min)
              /\ PorteFlag(a.flags, "echantillon_combine_faible")
                    <=> RLt(RAdd(team_a.played_total, team_b.played_total),
                            SEUILS.played_combine_min)
              /\ PorteFlag(a.flags, "gap_niveau_important")
                    <=> RGt(EcartNiveau(a), <<2, 1>>)
              /\ \A k \in 1..Len(a.flags) : a.flags[k] \in NomsFlags
              /\ Len(a.flags) = Cardinality(FlagsParmi(a.flags, NomsFlags))
    /\ pc = "termine" =>
          Len(analyses) = Len(SelectSeq(matchs_input,
                LAMBDA m : /\ m[1] \in DOMAIN stats_cache
                           /\ m[2] \in DOMAIN stats_cache
                           /\ stats_cache[m[1]].league_id = stats_cache[m[2]].league_id))

\* C25 witness: an analysis whose teams differ by exactly 2.0 in goal
\* difference and whose only flag is the low sample of B
C25_Temoin ==
    /\ pc = "termine"
    /\ \E i \in 1..Len(analyses) :
          /\ EcartNiveau(analyses[i]) = <<2, 1>>
          /\ analyses[i].flags = <<"echantillon_faible_B">>

\* C26: once charger_stats_equipes has built the Rating Cache, no step of
\* the run (the evaluation of the pairs, the ranking, the writing of the
\* files, the exit without pairs) changes stats_cache or SEUILS.
C26_CacheEnLectureSeule ==
    [][pc # "init" => (stats_cache' = stats_cache /\ SEUILS' = SEUILS)]_vars

\* C26 witness: a finished run one of whose analyses was decided against
\* penalised thresholds, the cache being the one built from the file and the
\* thresholds the defaults
C26_Temoin ==
    /\ pc = "termine"
    /\ \E i \in 1..Len(analyses) : Penalise(analyses[i].flags)
    /\ stats_cache = CacheDuFichier
    /\ stats_cache # DictVide
    /\ SEUILS = SeuilsDefaut

\* the override is a JSON object, or a JSON array of [key, value] arrays
SeuilsLisibles(fichier) ==
    /\ fichier.existe
    /\ \/ fichier.genre = "objet"
       \/ /\ fichier.genre = "liste"
          /\ \A i \in 1..Len(fichier.contenu) : fichier.contenu[i].genre = "paire"

\* the keys a readable override gives
ClesDonnees(fichier) ==
    IF fichier.genre = "objet" THEN DOMAIN fichier.contenu
    ELSE { fichier.contenu[i].cle : i \in 1..Len(fichier.contenu) }

\* the value a readable override gives to the key k, the last one of an array
ValeurDonnee(fichier, k) ==
    IF fichier.genre = "objet" THEN fichier.contenu[k]
    ELSE LET I == { i \in 1..Len(fichier.contenu) : fichier.contenu[i].cle = k }
             dernier == CHOOSE i \in I : \A j \in I : j <= i
         IN  fichier.contenu[dernier].valeur

\* C27 as stated: once the start of main() is over, each of the six
\* thresholds has the value a readable override gives it, its default when
\* the override does not name it or when no override is given; all six have
\* their defaults when the override is missing, is no JSON, or is a JSON
\* value that is neither an object nor an array of [key, value] arrays; and
\* the run goes on to the loading of the statistics.
C27_SeuilsApresDemarrage ==
    pc # "demarrage" =>
        /\ EstAppel("main")
        /\ LET donne == appel[1].seuils
           IN  \A k \in DOMAIN SeuilsDefaut :
                   SEUILS[k] = IF donne # None /\ SeuilsLisibles(donne[1])
                                  /\ k \in ClesDonnees(donne[1])
                               THEN ValeurDonnee(donne[1], k)
                               ELSE SeuilsDefaut[k]
        /\ pc = "exit1" => runs[Len(runs)].etape \in {"stats", "matchs"}

\* the rows of the history file
LignesHistorique == SelectSeq(historique.lignes, LAMBDA l : l.genre = "ligne")

\* C28 as stated: no history row whose goals-over decision is the avoid
\* tier holds a Resultat_Over15 value, and no row whose result decision is
\* the avoid tier holds a Resultat_Result value, whatever results the
\* updater was given.
C28_EviterSansResultat ==
    \A i \in 1..Len(LignesHistorique) :
        LET row == LignesHistorique[i]
        IN  /\ row.Decision_Over15 = "Eviter +1.5" => Lire(row, "Resultat_Over15") = ""
            /\ row.Decision_Result = "Eviter Resultat" => Lire(row, "Resultat_Result") = ""

\* the columns _ajouter_historique writes
ColonnesMoteur ==
    {"Date", "Match", "League_ID", "Decision_Over15", "Decision_Result", "O15I",
     "RSI_A", "RSI_B", "Fiabilite_Over15", "Fiabilite_Result", "Equipe_A_ID",
     "Equipe_B_ID", "Flags"}

ColonnesResultat == {"Resultat_Over15", "Resultat_Result"}

\* what a call of the updater with (results_data, date_str) may do to the
\* file it finds as avant and leaves as apres
MiseAJourPermise(avant, apres, results_data, date_str) ==
    /\ apres.existe = avant.existe
    /\ Len(apres.lignes) = Len(avant.lignes)
    /\ \A i \in 1..Len(avant.lignes) :
          LET ancienne == avant.lignes[i]
              nouvelle == apres.lignes[i]
          IN  /\ nouvelle.genre = ancienne.genre
              /\ ancienne.genre = "ligne" =>
                    /\ \A c \in ColonnesMoteur : nouvelle[c] = ancienne[c]
                    /\ \A c \in ColonnesResultat :
                          /\ ancienne.Date # date_str => Lire(nouvelle, c) = Lire(ancienne, c)
                          /\ Lire(ancienne, c) # "" => Lire(nouvelle, c) = Lire(ancienne, c)
    /\ update_historique_with_results(apres, results_data, date_str) = apres

\* C29: in any interleaving of engine runs and updater calls on one history
\* file, a call of the updater keeps the number and the order of the rows,
\* every column the engine wrote, every row of another date than the one
\* requested and every result value already filled in, and the same call
\* repeated at once changes nothing.
C29_MiseAJourSansPerte ==
    [][appel' # appel =>
          MiseAJourPermise(historique, historique', appel'[1].results_data,
                           appel'[1].date_str)]_vars

\* C29 witness: after two engine runs, a second call of the updater has
\* found a row of the requested date that already held a Resultat_Over15
\* value, with a fetched result that differs from it, next to a row of
\* another date; the value is still the former one
C29_Temoin ==
    /\ EstAppel("update_historique_with_results")
    /\ appel[1].n = 2
    /\ Len(runs) = 2
    /\ Len(appel[1].avant.lignes) = Len(historique.lignes)
    /\ \E i \in 1..Len(historique.lignes) :
          LET ancienne == appel[1].avant.lignes[i]
              k == ChercherResultat(appel[1].results_data, ancienne.Match, 1)
          IN  /\ ancienne.genre = "ligne"
              /\ ancienne.Date = appel[1].date_str
              /\ Lire(ancienne, "Resultat_Over15") # ""
              /\ k # 0
              /\ appel[1].results_data[k].resultat.over15 # Lire(ancienne, "Resultat_Over15")
              /\ historique.lignes[i].Resultat_Over15 = Lire(ancienne, "Resultat_Over15")
    /\ \E i \in 1..Len(historique.lignes) :
          /\ historique.lignes[i].genre = "ligne"
          /\ historique.lignes[i].Date # appel[1].date_str

\* the last response of a call that sent a request
Derniere(c) == c.requetes[Len(c.requetes)]

\* the requests sent so far by a call of api_get or requete_api
ApiBorne(c) ==
    /\ Len(c.requetes) <= c.max_retry
    /\ c.issue = "continue" => Len(c.requetes) < c.max_retry
    /\ \A i \in 1..Len(c.requetes) - 1 :
          /\ c.requetes[i].status \notin {0, 200}
          /\ c.fonction = "api_get" => c.requetes[i].status \in STATUTS_RETRY
          /\ c.fonction = "requete_api" => c.requetes[i].status # 404

\* the outcome of a finished call of api_get or requete_api
ApiIssue(c) ==
    IF c.requetes = <<>> THEN c.max_retry = 0 /\ c.issue = "raise"
    ELSE LET r == Derniere(c)
         IN  /\ (r.status = 200 /\ r.corps # "illisible") =>
                    (c.issue = "return" /\ c.retour = r.corps)
             /\ c.issue = "return" => r.status = 200
             /\ (c.fonction = "requete_api" /\ r.status = 404) =>
                    (c.issue = "return_vide" /\ c.retour = REPONSE_VIDE)
             /\ c.issue = "return_vide" => (c.fonction = "requete_api" /\ r.status = 404)
             /\ (c.fonction = "api_get" /\ r.status \notin STATUTS_RETRY \cup {200}) =>
                    c.issue = "raise"
             /\ (r.status \in STATUTS_RETRY \/ (c.fonction = "requete_api" /\ r.status = 400)) =>
                    (c.issue = "raise" /\ Len(c.requetes) = c.max_retry)

\* what holds of a call at every step
ApiSur ==
    appel # None =>
        /\ ApiBorne(appel[1])
        /\ pc = "api_fin" => ApiIssue(appel[1])

\* C30: a call of api_get ends, having sent at most max_retry requests: it
\* returns the body of the first 200 response (it raises if the body is no
\* JSON, or if the request itself raises); a request follows another only
\* after a 429/500/502/503/504 status with attempts left; any other status
\* raises at once and a retryable status on the last attempt raises.  A call
\* of requete_api ends within max_retry requests too, a 404 returning the
\* empty result at once.
C30_AppelBorne == []ApiSur /\ <>(pc = "api_fin")

\* C30 witness: a call of api_get with max_retry = 3 that ended on its third
\* request with a retryable status after two retries
C30_Temoin ==
    /\ pc = "api_fin"
    /\ appel[1].fonction = "api_get"
    /\ appel[1].max_retry = 3
    /\ Len(appel[1].requetes) = 3
    /\ Derniere(appel[1]).status = 503
    /\ appel[1].issue = "raise"

===========================================================================
